---- MODULE Spec2Model ----
(***************************************************************************)
(* License server: the in-memory session registry fed by /api/heartbeat,   *)
(* the licenses table and its lifecycle operations, the balance ledger     *)
(* (users.balance and the transactions table), referral sale recording,    *)
(* and the purchase / extension handlers of the Telegram bot.              *)
(*                                                                         *)
(* Time is in seconds.  Money is in nanoUSDT (i64 in the program).         *)
(***************************************************************************)
EXTENDS Integers, Sequences, FiniteSets, TLC

VARIABLES
  now,           \* wall clock, Utc::now()
  licenses,      \* table licenses: key -> row (rows are never deleted)
  users,         \* table users: tg_user_id -> row
  transactions,  \* table transactions: rows in insertion order (id = index)
  sessions,      \* AppState.sessions: DashMap<key, Vec<Session>>
  hb,            \* in-flight /api/heartbeat requests
  served,        \* number of heartbeat requests received so far
  ban,           \* the /ban admin command between set_blocked and drop_sessions
  txn,           \* database transaction of each caller: none / open / stale
  call,          \* in-flight calls of the Balance / Referral services
  buy,           \* in-flight handle_buy_plan / handle_extend_plan callbacks
  link,          \* in-flight License::link_to_user calls
  resp,          \* the answer of the last License::validate / expires call
  shard,         \* DashMap: the shard (one RwLock each) every key hashes to
  pending_invoices,  \* table pending_invoices: invoice_id -> row
  check,         \* in-flight Payment::check_and_process calls
  claimed_promos,    \* table claimed_promos: the (tg_user_id, promo_name) keys
  claim          \* in-flight License::claim_promo calls

vars == <<now, licenses, users, transactions, sessions, hb, served, ban, txn,
          call, buy, link, resp, shard, pending_invoices, check,
          claimed_promos, claim>>

\* the payment and promo state, which the other operations leave alone
extras == <<pending_invoices, check, claimed_promos, claim>>

----------------------------------------------------------------------------
(* Program constants *)

SessionTimeoutSecs == 60
SessionLimit == 5
DaySecs == 86400
NANO_USDT == 1000000
MONTH_PRICE_NANO == 10 * NANO_USDT
QUARTER_PRICE_NANO == 25 * NANO_USDT
DefaultCommissionRate == 10
DefaultDiscountPercent == 3
DefaultMaxSessions == 1

(* Bounds of the model *)

TickSecs == 30          \* granularity of the clock in the registry runs
MaxClock == 60          \* the registry runs stop the clock here
MaxHeartbeats == 3      \* heartbeat requests received in a registry run
MaxQuotaHeartbeats == 6 \* heartbeat requests received in a quota run
MaxSweepHeartbeats == 3 \* heartbeat requests received in a sweep run
MaxLockHeartbeats == 3  \* heartbeat requests received in a lock run
MaxSweepClock == 90      \* the sweep runs stop the clock here
MaxPurchases == 1       \* callbacks handled in a purchase run
PurchaseDays == 1       \* days the clock may advance in a purchase run
MaxLinks == 2           \* /link commands received in a license run
LicenseDays == 2        \* days the clock may advance in a license run
ValidityStepDays == 7   \* granularity of the clock in the validity runs
ValidityDays == 14      \* the validity runs stop the clock after these days
MaxCalls == 2           \* service calls received in a ledger run

----------------------------------------------------------------------------
(* Identities *)

SessKeys == {"k1", "k2"}
SessDevices == {"d1", "d2"}
SessReqs == {"r1", "r2"}

QuotaKeys == {"k1"}
QuotaDevices == {"d1", "d2", "d3", "d4", "d5", "d6"}
QuotaReqs == {"r1"}

Reqs == {"r1", "r2"}
UserIds == {1, 2, 3}

NoKey == "-"
NoDevice == "-"

----------------------------------------------------------------------------
(* Small helpers *)

Abs(a) == IF a < 0 THEN -a ELSE a

\* (a * p) / 100 on i64, truncating.  The product is split as
\* |a| = 100 q + r so that no intermediate value leaves TLC's 32-bit range;
\* the value is the same.
MulDiv100(a, p) ==
  LET q == Abs(a) \div 100
      r == Abs(a) % 100
      m == q * Abs(p) + (r * Abs(p)) \div 100
  IN  IF (a < 0) = (p < 0) THEN m ELSE -m

----------------------------------------------------------------------------
(* Rows *)

\* user::ActiveModel of User::get_or_create
NewUser ==
  [balance |-> 0, role |-> "User", referred_by |-> {},
   commission_rate |-> DefaultCommissionRate,
   discount_percent |-> DefaultDiscountPercent,
   referral_sales |-> 0, referral_earnings |-> 0, referral_code |-> {}]

\* license::ActiveModel of License::create (and create_gift with owner 0)
NewLicense(owner, ty, days, t) ==
  [tg_user_id |-> owner, license_type |-> ty, is_blocked |-> FALSE,
   expires_at |-> t + DaySecs * days, created_at |-> t,
   max_sessions |-> DefaultMaxSessions]

\* Session { machine_id, last_seen }
NewSession(m, t) == [machine_id |-> m, last_seen |-> t]

----------------------------------------------------------------------------
(* Database transactions.  The store is SQLite: a transaction that read a  *)
(* row and then writes fails (busy) when another connection committed a    *)
(* write after its read; it never overwrites that write.                   *)

Callers == {"c1", "c2"}
Buyers == {"b1"}
Procs == Callers \cup Buyers

\* the tasks that run Payment::check_and_process: the callers' connections
Checkers == Callers

\* the tasks that run License::claim_promo
Claimers == {"t1", "t2"}

\* pending_invoice::Model (created_at is left out: one invoice per user)
NoInvoice == [user_id |-> 0, amount_nano |-> 0, referrer_id |-> {},
              expires_at |-> 0]

\* a check_and_process call at rest: the pending rows it read, the
\* statuses CryptoBot reported, its place in the loop, the row it read for
\* the statement it is at, its results and its Result
IdleCheck ==
  [pc |-> "idle", user |-> 0, pending |-> << >>, paid |-> {}, expired |-> {},
   at |-> 0, snap |-> [balance |-> 0], results |-> << >>, result |-> "-"]

\* a claim_promo call at rest, with its Result and the key of the license
\* it created
IdleClaim ==
  [pc |-> "idle", user |-> 0, promo |-> "-", key |-> "-", result |-> "-"]

\* txn after caller p committed a write ("-" for an autocommit statement)
AfterWrite(p) ==
  [q \in Procs |->
     IF q = p THEN "none"
     ELSE IF txn[q] = "open" THEN "stale" ELSE txn[q]]

\* txn after caller p began a transaction and read
AfterBegin(p) == [txn EXCEPT ![p] = "open"]

\* txn after caller p dropped its transaction (rollback)
AfterRollback(p) == [txn EXCEPT ![p] = "none"]

----------------------------------------------------------------------------
(* Session registry: POST /api/heartbeat *)

\* a request at rest with the answer it gave; pruned is the number of
\* sessions its retain removed (kept for the record, the handler has no
\* such field)
IdleReq(status) ==
  [pc |-> "idle", key |-> NoKey, machine_id |-> NoDevice, now |-> 0,
   status |-> status, pruned |-> 0]

Group(k) == IF k \in DOMAIN sessions THEN sessions[k] ELSE << >>

\* sessions.iter_mut().find(|sess| sess.machine_id == req.machine_id)
HasSession(k, m) ==
  /\ k \in DOMAIN sessions
  /\ \E i \in 1..Len(sessions[k]) : sessions[k][i].machine_id = m

FirstIndex(group, m) ==
  CHOOSE i \in 1..Len(group) :
    /\ group[i].machine_id = m
    /\ \A j \in 1..(i - 1) : group[j].machine_id # m

\* sess.last_seen = now, on the first session of the device
Touch(group, m, t) ==
  [group EXCEPT ![FirstIndex(group, m)].last_seen = t]

\* faulty variant of Fresh: a session of exactly the timeout's age is kept
FreshInclusive(s, t) == t - s.last_seen <= SessionTimeoutSecs

\* the predicate of entry.retain: (now - s.last_seen).num_seconds() < 60
Fresh(s, t) == t - s.last_seen < SessionTimeoutSecs

\* faulty variant of Retain: nothing is pruned
RetainAll(group, t) == group

\* entry.retain(|s| (now - s.last_seen).num_seconds() < 60)
Retain(group, t) == SelectSeq(group, LAMBDA s : Fresh(s, t))

\* faulty variant of LimitReached: refuses only beyond the limit
LimitReachedOffByOne(entry) == Len(entry) > SessionLimit

\* entry.len() >= 5
LimitReached(entry) == Len(entry) >= SessionLimit

\* an entry of the map set to a value (or_insert_with, then the Vec's edits)
PutGroup(k, group) ==
  [x \in DOMAIN sessions \cup {k} |-> IF x = k THEN group ELSE sessions[x]]

\* faulty variant of Refused: the expiry is not looked at
RefusedByBlockOnly(lic, t) == lic.is_blocked

\* license.is_blocked || license.expires_at < now
Refused(lic, t) == lic.is_blocked \/ lic.expires_at < t

\* lines 22-27, under the lock get_mut took: the session of the device is
\* refreshed, or the request goes on to the license query
HotPath(r, k, m, t) ==
  IF HasSession(k, m)
    THEN /\ sessions' = [sessions EXCEPT ![k] = Touch(@, m, t)]
         /\ hb' = [hb EXCEPT ![r] = IdleReq("OK")]
    ELSE /\ sessions' = sessions
         /\ hb' = [hb EXCEPT ![r] =
                     [pc |-> "query", key |-> k, machine_id |-> m,
                      now |-> t, status |-> "none", pruned |-> 0]]

\* lines 20-27: the hot path; a miss goes on to the license query
HeartbeatRecv(r, k, m, cap) ==
  /\ hb[r].pc = "idle"
  /\ served < cap
  /\ served' = served + 1
  /\ HotPath(r, k, m, now)
  /\ UNCHANGED <<now, licenses, users, transactions, ban, txn, call, buy, link>>
  /\ UNCHANGED <<resp, shard, extras>>

\* lines 29-48: SELECT * FROM licenses WHERE key = ?, and the two refusals
HeartbeatLookup(r) ==
  /\ hb[r].pc = "query"
  /\ hb' = [hb EXCEPT ![r] =
              IF hb[r].key \notin DOMAIN licenses
                THEN IdleReq("UNAUTHORIZED")
              ELSE IF Refused(licenses[hb[r].key], hb[r].now)
                THEN IdleReq("FORBIDDEN")
              ELSE [@ EXCEPT !.pc = "admit"]]
  /\ UNCHANGED <<now, licenses, users, transactions, sessions, served, ban,
                 txn, call, buy, link>>
  /\ UNCHANGED <<resp, shard, extras>>

\* lines 50-64, under the lock entry() took: retain, the limit, push
Admission(r) ==
  LET entry == Retain(Group(hb[r].key), hb[r].now)
      pruned == Len(Group(hb[r].key)) - Len(entry)
  IN  IF LimitReached(entry)
        THEN /\ sessions' = PutGroup(hb[r].key, entry)
             /\ hb' = [hb EXCEPT ![r] =
                         [IdleReq("CONFLICT") EXCEPT !.pruned = pruned]]
        ELSE /\ sessions' =
                  PutGroup(hb[r].key,
                           Append(entry,
                                  NewSession(hb[r].machine_id, hb[r].now)))
             /\ hb' = [hb EXCEPT ![r] =
                         [IdleReq("OK") EXCEPT !.pruned = pruned]]

\* lines 50-64: the entry of the key, under the shard's lock
HeartbeatAdmit(r) ==
  /\ hb[r].pc = "admit"
  /\ Admission(r)
  /\ UNCHANGED <<now, licenses, users, transactions, served, ban, txn, call,
                 buy, link>>
  /\ UNCHANGED <<resp, shard, extras>>

\* The same handler with the map's locks shown.  get_mut (line 22) and
\* entry (line 50) take the write lock of the shard the key hashes to and
\* wait while another guard of that shard is alive; the guard lives to the
\* end of the block that took it.

Shards == {"s1", "s2"}

\* the requests that hold a guard of the map
Holding(r) == hb[r].pc \in {"hot", "entry"}

\* no guard of the shard of key k is alive
ShardFree(k) ==
  \A r \in Reqs : Holding(r) => shard[hb[r].key] # shard[k]

\* lines 20-22: Utc::now(), then get_mut(&req.key) returns with the lock
HeartbeatGetMut(r, k, m, cap) ==
  /\ hb[r].pc = "idle"
  /\ served < cap
  /\ ShardFree(k)
  /\ served' = served + 1
  /\ hb' = [hb EXCEPT ![r] =
              [pc |-> "hot", key |-> k, machine_id |-> m, now |-> now,
               status |-> "none", pruned |-> 0]]
  /\ UNCHANGED <<now, licenses, users, transactions, sessions, ban, txn,
                 call, buy, link, resp, shard, extras>>

\* lines 23-27: the rest of the hot path; the guard is dropped
HeartbeatHot(r) ==
  /\ hb[r].pc = "hot"
  /\ HotPath(r, hb[r].key, hb[r].machine_id, hb[r].now)
  /\ UNCHANGED <<now, licenses, users, transactions, served, ban, txn, call,
                 buy, link, resp, shard, extras>>

\* line 50: entry(req.key) returns with the lock
HeartbeatEntry(r) ==
  /\ hb[r].pc = "admit"
  /\ ShardFree(hb[r].key)
  /\ hb' = [hb EXCEPT ![r].pc = "entry"]
  /\ UNCHANGED <<now, licenses, users, transactions, sessions, served, ban,
                 txn, call, buy, link, resp, shard, extras>>

\* lines 51-64: the rest of the admission; the guard is dropped
HeartbeatPush(r) ==
  /\ hb[r].pc = "entry"
  /\ Admission(r)
  /\ UNCHANGED <<now, licenses, users, transactions, served, ban, txn, call,
                 buy, link, resp, shard, extras>>

\* AppState::gc_sessions, run every 60 s: stale sessions and then empty
\* groups are removed
GcSessions ==
  /\ sessions' =
       [k \in {x \in DOMAIN sessions : Retain(sessions[x], now) # << >>} |->
          Retain(sessions[k], now)]
  /\ UNCHANGED <<now, licenses, users, transactions, hb, served, ban, txn,
                 call, buy, link>>
  /\ UNCHANGED <<resp, shard, extras>>

\* AppState::drop_sessions
DropSessions(k) == [x \in DOMAIN sessions \ {k} |-> sessions[x]]

\* faulty variant of SetBlocked: the UPDATE also ends the license
SetBlockedAndExpired(k, b) ==
  [licenses EXCEPT ![k].is_blocked = b, ![k].expires_at = now]

\* License::set_blocked: the row after the UPDATE
SetBlocked(k, b) == [licenses EXCEPT ![k].is_blocked = b]

\* the /ban command at rest; dropped is the number of sessions that
\* drop_sessions has removed so far
IdleBan(dropped) == [pc |-> "idle", key |-> NoKey, dropped |-> dropped]

\* faulty variant of BanSetBlocked: the result of set_blocked is not looked
\* at before the sessions are dropped
BanSetBlockedUnchecked(k) ==
  /\ ban.pc = "idle"
  /\ ban' = [pc |-> "drop", key |-> k, dropped |-> ban.dropped]
  /\ IF k \in DOMAIN licenses
       THEN /\ licenses' = SetBlocked(k, TRUE)
            /\ txn' = AfterWrite("-")
       ELSE UNCHANGED <<licenses, txn>>
  /\ UNCHANGED <<now, users, transactions, sessions, hb, served, call, buy,
                 link, resp, shard, extras>>

\* /ban <key>: set_blocked(key, true) ...
BanSetBlocked(k) ==
  /\ ban.pc = "idle"
  /\ IF k \in DOMAIN licenses
       THEN /\ licenses' = SetBlocked(k, TRUE)
            /\ ban' = [pc |-> "drop", key |-> k, dropped |-> ban.dropped]
            /\ txn' = AfterWrite("-")
       ELSE UNCHANGED <<licenses, ban, txn>>
  /\ UNCHANGED <<now, users, transactions, sessions, hb, served, call, buy,
                 link>>
  /\ UNCHANGED <<resp, shard, extras>>

\* ... and, when it succeeded, app.drop_sessions(&key)
BanDropSessions ==
  /\ ban.pc = "drop"
  /\ sessions' = DropSessions(ban.key)
  /\ ban' = IdleBan(ban.dropped + Len(Group(ban.key)))
  /\ UNCHANGED <<now, licenses, users, transactions, hb, served, txn, call,
                 buy, link>>
  /\ UNCHANGED <<resp, shard, extras>>

\* /unban <key>
Unban(k) ==
  /\ k \in DOMAIN licenses
  /\ licenses' = SetBlocked(k, FALSE)
  /\ txn' = AfterWrite("-")
  /\ UNCHANGED <<now, users, transactions, sessions, hb, served, ban, call,
                 buy, link>>
  /\ UNCHANGED <<resp, shard, extras>>

\* the clock
Tick(step, cap) ==
  /\ now + step <= cap
  /\ now' = now + step
  /\ UNCHANGED <<licenses, users, transactions, sessions, hb, served, ban,
                 txn, call, buy, link>>
  /\ UNCHANGED <<resp, shard, extras>>


----------------------------------------------------------------------------
(* Balance ledger: sv::Balance, and Referral::record_sale.  An Option is a  *)
(* set with at most one element.                                           *)

Mutators == {"deposit", "spend", "add_referral_bonus", "add_cashback",
             "withdraw"}

\* faulty variant of BadAmount: zero passes
BadAmountBelowZero(op, amount) == op \in Mutators /\ amount < 0

\* if amount <= 0 { return Err(Error::InvalidArgs(..)) }; record_sale has no
\* such check
BadAmount(op, amount) == op \in Mutators /\ amount <= 0

\* faulty variant of WithdrawalRefused: any role may withdraw
WithdrawalRefusedNever(row) == FALSE

\* user.role != Creator && user.role != Admin, in withdraw
WithdrawalRefused(row) == row.role # "Creator" /\ row.role # "Admin"

\* faulty variant of SpendRefused: looks at the sign of the balance only
SpendRefusedUnlessPositive(row, amount) == row.balance <= 0

\* user.balance < amount, in spend
SpendRefused(row, amount) == row.balance < amount

\* user.balance < amount, in withdraw
WithdrawRefused(row, amount) == row.balance < amount

\* What the call's transaction finds after begin() and the SELECT of the
\* user: the error it returns with, or "open" when it goes on to write.
BeginOutcome(op, u, amount) ==
  IF BadAmount(op, amount) THEN "InvalidArgs"
  ELSE IF u \notin DOMAIN users
    THEN (IF op = "record_sale" THEN "ReferralNotFound" ELSE "UserNotFound")
  ELSE IF op = "withdraw" /\ WithdrawalRefused(users[u])
    THEN "WithdrawalNotAllowed"
  ELSE IF op = "withdraw" /\ WithdrawRefused(users[u], amount)
    THEN "InsufficientBalance"
  ELSE IF op = "spend" /\ SpendRefused(users[u], amount)
    THEN "InsufficientBalance"
  ELSE "open"

\* faulty variant of Commission: rounds up
CommissionRoundedUp(sale_amount, rate) == (sale_amount * rate + 99) \div 100

\* let commission = (sale_amount * referrer.commission_rate as i64) / 100
Commission(sale_amount, rate) == MulDiv100(sale_amount, rate)

\* the change of the balance column, computed from the row the call read
Delta(op, snap, amount) ==
  CASE op = "deposit" -> amount
    [] op = "spend" -> -amount
    [] op = "add_referral_bonus" -> amount
    [] op = "add_cashback" -> amount
    [] op = "withdraw" -> -amount
    [] op = "record_sale" -> Commission(amount, snap.commission_rate)

\* the value the call returns: new_balance, or the commission
Returned(op, snap, amount) ==
  IF op = "record_sale" THEN Commission(amount, snap.commission_rate)
  ELSE snap.balance + Delta(op, snap, amount)

\* the UPDATE of the user's row: only the columns that were Set are written,
\* each with a value computed from the row read at the start
Updated(op, row, snap, amount) ==
  IF op = "record_sale"
    THEN [row EXCEPT
            !.referral_sales = snap.referral_sales + 1,
            !.referral_earnings =
               snap.referral_earnings + Commission(amount, snap.commission_rate),
            !.balance = snap.balance + Commission(amount, snap.commission_rate)]
    ELSE [row EXCEPT !.balance = snap.balance + Delta(op, snap, amount)]

TxType(op) ==
  CASE op = "deposit" -> "Deposit"
    [] op = "spend" -> "Purchase"
    [] op = "add_referral_bonus" -> "ReferralBonus"
    [] op = "add_cashback" -> "Cashback"
    [] op = "withdraw" -> "Withdrawal"

\* faulty variant of Inserted: the amount is logged without its sign
InsertedUnsigned(op, u, snap, amount, note) ==
  IF op = "record_sale" THEN << >>
  ELSE << [user_id |-> u, amount |-> amount, tx_type |-> TxType(op),
           description |-> note] >>

\* the transaction::ActiveModel each mutator inserts; record_sale inserts none
Inserted(op, u, snap, amount, note) ==
  IF op = "record_sale" THEN << >>
  ELSE << [user_id |-> u, amount |-> Delta(op, snap, amount),
           tx_type |-> TxType(op), description |-> note] >>

\* faulty variant of Committable: a store without isolation
CommitsBlindly(p) == TRUE

\* txn.commit() goes through unless a write was committed after this
\* transaction's read
Committable(p) == txn[p] = "open"

\* the database after the call of p committed
Committed(p, op, u, snap, amount, note) ==
  /\ users' = [users EXCEPT ![u] = Updated(op, @, snap, amount)]
  /\ transactions' = transactions \o Inserted(op, u, snap, amount, note)
  /\ txn' = AfterWrite(p)

\* the statements of a mutator that can fail after begin() and the SELECT
FailStages == {"update", "insert", "commit"}

\* faulty variant of RolledBack: the statements run on the connection, not
\* on the transaction, so what ran before the failure stays
StatementsKept(op, u, snap, amount, stage) ==
  /\ users' = IF stage = "update" THEN users
              ELSE [users EXCEPT ![u] = Updated(op, @, snap, amount)]
  /\ transactions' = transactions

\* the database after the call failed at a statement: UPDATE and INSERT ran
\* on &txn, which is dropped without commit
RolledBack(op, u, snap, amount, stage) ==
  /\ users' = users
  /\ transactions' = transactions

NoRow == [balance |-> 0]

IdleCall ==
  [pc |-> "idle", op |-> "-", user |-> 0, amount |-> 0, snap |-> NoRow,
   result |-> "-", ret |-> 0]

\* the description a direct call passes
NoteOf(op) ==
  CASE op = "withdraw" -> "Crypto withdrawal"
    [] op = "add_referral_bonus" -> "Referral bonus from code"
    [] OTHER -> "-"

\* A service call up to and including its checks on the row it read.
CallBegin(p, op, u, amount, cap) ==
  /\ call[p].pc = "idle"
  /\ served < cap
  /\ served' = served + 1
  /\ LET out == BeginOutcome(op, u, amount)
     IN  IF out = "open"
           THEN /\ call' = [call EXCEPT ![p] =
                              [pc |-> "open", op |-> op, user |-> u,
                               amount |-> amount, snap |-> users[u],
                               result |-> "-", ret |-> 0]]
                /\ txn' = AfterBegin(p)
           ELSE /\ call' = [call EXCEPT ![p] =
                              [pc |-> "idle", op |-> op, user |-> u,
                               amount |-> amount, snap |-> NoRow,
                               result |-> out, ret |-> 0]]
                /\ txn' = txn
  /\ UNCHANGED <<now, licenses, users, transactions, sessions, hb, ban, buy,
                 link>>
  /\ UNCHANGED <<resp, shard, extras>>

\* The rest of the call: UPDATE, INSERT, commit.  io = FALSE is a storage
\* failure at one of them; the transaction is then rolled back.
CallCommit(p, io) ==
  /\ call[p].pc = "open"
  /\ LET c == call[p]
     IN  IF io /\ Committable(p)
           THEN /\ Committed(p, c.op, c.user, c.snap, c.amount, NoteOf(c.op))
                /\ call' = [call EXCEPT ![p] =
                              [c EXCEPT !.pc = "idle", !.result = "Ok",
                                        !.ret = Returned(c.op, c.snap, c.amount)]]
           ELSE /\ call' = [call EXCEPT ![p] =
                              [c EXCEPT !.pc = "idle", !.result = "DbErr"]]
                /\ txn' = AfterRollback(p)
                /\ \E stage \in (IF io THEN {"commit"} ELSE FailStages) :
                     RolledBack(c.op, c.user, c.snap, c.amount, stage)
  /\ UNCHANGED <<now, licenses, sessions, hb, served, ban, buy, link>>
  /\ UNCHANGED <<resp, shard, extras>>


----------------------------------------------------------------------------
(* Purchases: handle_buy_plan and handle_extend_plan (Telegram callbacks)  *)

Opt(S) == {{}} \cup {{x} : x \in S}
The(o) == CHOOSE x \in o : TRUE

\* faulty variant of CanWithdraw: every role counts
CanWithdrawAnyRole(row) == row.role \in {"User", "Creator", "Admin"}

\* Referral::stats(..).can_withdraw
CanWithdraw(row) == row.role = "Creator" \/ row.role = "Admin"

\* Referral::discount_percent
DiscountPercent(ref) ==
  IF ref # {} /\ The(ref) \in DOMAIN users /\ CanWithdraw(users[The(ref)])
    THEN users[The(ref)].discount_percent
    ELSE 0

Plans == {"month", "quarter"}

PlanBase(plan) == IF plan = "month" THEN MONTH_PRICE_NANO ELSE QUARTER_PRICE_NANO
PlanDays(plan) == IF plan = "month" THEN 30 ELSE 90
PlanName(plan) == IF plan = "month" THEN "1 Month" ELSE "3 Months"

\* faulty variant of PlanPrice: the sign of the discount is not looked at
PlanPriceAnyDiscount(plan, discount) ==
  MulDiv100(PlanBase(plan), 100 - discount)

\* if discount_percent > 0 { BASE * (100 - discount_percent) as i64 / 100 }
\* else { BASE }
PlanPrice(plan, discount) ==
  IF discount > 0 THEN MulDiv100(PlanBase(plan), 100 - discount)
  ELSE PlanBase(plan)

IdleBuy ==
  [pc |-> "idle", kind |-> "-", user |-> 0, plan |-> "-", key |-> NoKey,
   balance |-> 0, referred_by |-> {}, price |-> 0, commission |-> 0,
   snap |-> NoRow, new_balance |-> 0, ignored |-> {}, refunds |-> 0,
   escalated |-> FALSE, outcome |-> "-", pre |-> << >>]

\* the start of the callback: for an extension the license must be the
\* caller's; then the user's row gives balance and referred_by
BuyStart(b, kind, u, plan, k, cap) ==
  /\ buy[b].pc = "idle"
  /\ served < cap
  /\ served' = served + 1
  /\ LET mine == k \in DOMAIN licenses /\ licenses[k].tg_user_id = u
         known == u \in DOMAIN users
     IN  buy' = [buy EXCEPT ![b] =
                   IF kind = "extend" /\ ~mine
                     THEN [IdleBuy EXCEPT !.kind = kind, !.user = u,
                                          !.outcome = "license_not_found"]
                     ELSE [IdleBuy EXCEPT
                             !.pc = "price", !.kind = kind, !.user = u,
                             !.plan = plan,
                             !.key = IF kind = "extend" THEN k ELSE NoKey,
                             !.balance = IF known THEN users[u].balance ELSE 0,
                             !.referred_by =
                                IF known THEN users[u].referred_by ELSE {},
                             !.pre = users]]
  /\ UNCHANGED <<now, licenses, users, transactions, sessions, hb, ban, txn,
                 call, link>>
  /\ UNCHANGED <<resp, shard, extras>>

\* the discount of the referrer, the price of the plan, the balance check
BuyPrice(b) ==
  /\ buy[b].pc = "price"
  /\ LET price == PlanPrice(buy[b].plan, DiscountPercent(buy[b].referred_by))
     IN  buy' = [buy EXCEPT ![b] =
                   IF buy[b].balance < price
                     THEN [@ EXCEPT !.pc = "idle", !.price = price,
                                    !.outcome = "insufficient"]
                     ELSE [@ EXCEPT !.pc = "spend", !.price = price]]
  /\ UNCHANGED <<now, licenses, users, transactions, sessions, hb, served,
                 ban, txn, call, link>>
  /\ UNCHANGED <<resp, shard, extras>>

RefundNote(kind) ==
  IF kind = "buy" THEN "Refund: license creation failed"
  ELSE "Refund: license extension failed"

SpendNote(kind, plan) ==
  IF kind = "buy" THEN <<"License purchase", PlanName(plan)>>
  ELSE <<"License extension", PlanName(plan)>>

\* faulty variant of RefundAmount: the list price, not the charged one
RefundAmountUndiscounted(b) == PlanBase(buy[b].plan)

\* the amount of the refund deposit
RefundAmount(b) == buy[b].price

\* The service call the callback is at: spend, record_sale,
\* add_referral_bonus, or the refund deposit.
BuyCall(b) ==
  LET c == buy[b]
      stage == CASE c.pc \in {"spend", "spend_commit"} -> "spend"
                 [] c.pc \in {"sale", "sale_commit"} -> "sale"
                 [] c.pc \in {"bonus", "bonus_commit"} -> "bonus"
                 [] c.pc \in {"refund", "refund_commit"} -> "refund"
  IN  CASE stage = "spend" ->
             [op |-> "spend", user |-> c.user, amount |-> c.price,
              note |-> SpendNote(c.kind, c.plan)]
        [] stage = "sale" ->
             [op |-> "record_sale", user |-> The(c.referred_by),
              amount |-> c.price, note |-> "-"]
        [] stage = "bonus" ->
             [op |-> "add_referral_bonus", user |-> The(c.referred_by),
              amount |-> c.commission, note |-> "Referral bonus from code"]
        [] stage = "refund" ->
             [op |-> "deposit", user |-> c.user, amount |-> RefundAmount(b),
              note |-> RefundNote(c.kind)]

\* faulty variant of Ignored: the error ends the callback
Unwound(c, op, next) ==
  [c EXCEPT !.pc = "idle", !.outcome = "payment_failed",
            !.ignored = @ \cup {op}]

\* `let _ = call(..).await`: the error of op is dropped and the callback
\* goes on to its next statement
Ignored(c, op, next) == [c EXCEPT !.pc = next, !.ignored = @ \cup {op}]

\* where the callback goes after the call it is at: Ok(..) or Err(..).
\* record_sale and add_referral_bonus are called as `let _ = ..`; so is the
\* refund deposit.
AfterCall(c, ok) ==
  CASE c.pc \in {"spend", "spend_commit"} ->
         IF ok
           THEN [c EXCEPT !.pc = IF c.referred_by # {} THEN "sale" ELSE "license"]
           ELSE [c EXCEPT !.pc = "idle", !.outcome = "payment_failed"]
    [] c.pc \in {"sale", "sale_commit"} ->
         IF ok THEN [c EXCEPT !.pc = "ref_read"]
         ELSE Ignored(c, "record_sale", "ref_read")
    [] c.pc \in {"bonus", "bonus_commit"} ->
         IF ok THEN [c EXCEPT !.pc = "license"]
         ELSE Ignored(c, "add_referral_bonus", "license")
    [] c.pc \in {"refund", "refund_commit"} ->
         [c EXCEPT !.pc = "idle", !.refunds = @ + 1,
                   !.outcome = IF ok THEN "refunded" ELSE "refund_failed"]

BuyCallBegin(b) ==
  /\ buy[b].pc \in {"spend", "sale", "bonus", "refund"}
  /\ LET a == BuyCall(b)
         out == BeginOutcome(a.op, a.user, a.amount)
     IN  IF out = "open"
           THEN /\ buy' = [buy EXCEPT ![b] =
                             [@ EXCEPT !.pc = CASE @ = "spend" -> "spend_commit"
                                                [] @ = "sale" -> "sale_commit"
                                                [] @ = "bonus" -> "bonus_commit"
                                                [] @ = "refund" -> "refund_commit",
                                       !.snap = users[a.user]]]
                /\ txn' = AfterBegin(b)
           ELSE /\ buy' = [buy EXCEPT ![b] = AfterCall(@, FALSE)]
                /\ txn' = txn
  /\ UNCHANGED <<now, licenses, users, transactions, sessions, hb, served,
                 ban, call, link>>
  /\ UNCHANGED <<resp, shard, extras>>

BuyCallCommit(b, io) ==
  /\ buy[b].pc \in {"spend_commit", "sale_commit", "bonus_commit",
                    "refund_commit"}
  /\ LET a == BuyCall(b)
         c == buy[b]
     IN  IF io /\ Committable(b)
           THEN /\ Committed(b, a.op, a.user, c.snap, a.amount, a.note)
                /\ buy' = [buy EXCEPT ![b] =
                             AfterCall([c EXCEPT
                                          !.new_balance =
                                             IF a.op = "spend"
                                               THEN Returned(a.op, c.snap, a.amount)
                                               ELSE @],
                                       TRUE)]
           ELSE /\ buy' = [buy EXCEPT ![b] = AfterCall(c, FALSE)]
                /\ txn' = AfterRollback(b)
                /\ \E stage \in (IF io THEN {"commit"} ELSE FailStages) :
                     RolledBack(a.op, a.user, c.snap, a.amount, stage)
  /\ UNCHANGED <<now, licenses, sessions, hb, served, ban, call, link>>
  /\ UNCHANGED <<resp, shard, extras>>

\* sv.user.by_id(referrer_id), and the commission computed by the callback
BuyRefRead(b) ==
  /\ buy[b].pc = "ref_read"
  /\ LET r == The(buy[b].referred_by)
         c == buy[b]
     IN  buy' = [buy EXCEPT ![b] =
                   IF r \in DOMAIN users
                     THEN [c EXCEPT !.pc = "bonus",
                                    !.commission =
                                       Commission(c.price, users[r].commission_rate)]
                     ELSE [c EXCEPT !.pc = "license"]]
  /\ UNCHANGED <<now, licenses, users, transactions, sessions, hb, served,
                 ban, txn, call, link>>
  /\ UNCHANGED <<resp, shard, extras>>

PurchaseKeys == {"k1", "k2"}

\* faulty variant of Extended: the blocked flag is left as it is
ExtendedStillBlocked(k, secs) == [licenses EXCEPT ![k].expires_at = now + secs]

\* License::expires: the row after the UPDATE
Extended(k, secs) ==
  [licenses EXCEPT ![k].expires_at = now + secs, ![k].is_blocked = FALSE]

\* License::create: a row under a fresh key
Created(k, owner, ty, days) ==
  [x \in DOMAIN licenses \cup {k} |->
     IF x = k THEN NewLicense(owner, ty, days, now) ELSE licenses[x]]

\* the license step: License::create for a purchase, License::expires for
\* an extension.  io = FALSE is a storage failure; the callback then goes on
\* to refund.
BuyLicense(b, io) ==
  /\ buy[b].pc = "license"
  /\ LET c == buy[b]
     IN  IF ~io \/ (c.kind = "extend" /\ c.key \notin DOMAIN licenses)
           THEN /\ buy' = [buy EXCEPT ![b].pc = "refund"]
                /\ UNCHANGED <<licenses, txn>>
           ELSE /\ \E k \in PurchaseKeys :
                     /\ IF c.kind = "extend" THEN k = c.key
                                             ELSE k \notin DOMAIN licenses
                     /\ licenses' =
                          IF c.kind = "extend"
                            THEN Extended(k, PlanDays(c.plan) * DaySecs)
                            ELSE Created(k, c.user, "Pro", PlanDays(c.plan))
                     /\ buy' = [buy EXCEPT ![b] =
                                  [c EXCEPT !.pc = "idle", !.key = k,
                                            !.outcome = "ok"]]
                /\ txn' = AfterWrite(b)
  /\ UNCHANGED <<now, users, transactions, sessions, hb, served, ban, call,
                 link>>
  /\ UNCHANGED <<resp, shard, extras>>


----------------------------------------------------------------------------
(* Licenses: create_gift, expires, link_to_user (/link <key>)              *)

Linkers == {"l1", "l2"}
GiftKeys == {"k1"}
LinkKeys == {"k1", "k2"}

NoLicense == NewLicense(0, "-", 0, 0)

IdleResp ==
  [op |-> "-", key |-> NoKey, secs |-> 0, result |-> "-",
   license |-> NoLicense, expires_at |-> 0, ref |-> {}, code |-> {},
   value |-> 0]

IdleLink ==
  [pc |-> "idle", key |-> NoKey, user |-> 0, license |-> NoLicense,
   expires_at |-> 0, now |-> 0, result |-> "-"]

\* User::get_or_create: the users table afterwards
GetOrCreate(u) ==
  [x \in DOMAIN users \cup {u} |-> IF x \in DOMAIN users THEN users[x] ELSE NewUser]

\* License::create_gift: the placeholder user 0, then a row owned by 0
CreateGift(k, ty, days) ==
  /\ k \notin DOMAIN licenses
  /\ users' = GetOrCreate(0)
  /\ licenses' = Created(k, 0, ty, days)
  /\ txn' = AfterWrite("-")
  /\ UNCHANGED <<now, transactions, sessions, hb, served, ban, call, buy,
                 link>>
  /\ UNCHANGED <<resp, shard, extras>>

\* License::expires (/buy <key> <duration> by an admin): one transaction
\* that finds the row, or fails with LicenseNotFound, and sets expires_at
\* and is_blocked; Ok(new_exp)
Expires(k, days) ==
  /\ IF k \in DOMAIN licenses
       THEN /\ licenses' = Extended(k, days * DaySecs)
            /\ txn' = AfterWrite("-")
            /\ resp' = [IdleResp EXCEPT !.op = "expires", !.key = k,
                                        !.secs = days * DaySecs,
                                        !.result = "Ok",
                                        !.license = licenses[k],
                                        !.expires_at = now + days * DaySecs]
       ELSE /\ resp' = [IdleResp EXCEPT !.op = "expires", !.key = k,
                                        !.secs = days * DaySecs,
                                        !.result = "LicenseNotFound"]
            /\ UNCHANGED <<licenses, txn>>
  /\ UNCHANGED <<now, users, transactions, sessions, hb, served, ban, call,
                 buy, link, shard, extras>>

\* License::create (/buy <duration> by an admin): the owner's user row,
\* then a row under a fresh key
CreateLicense(k, owner, ty, days) ==
  /\ k \notin DOMAIN licenses
  /\ users' = GetOrCreate(owner)
  /\ licenses' = Created(k, owner, ty, days)
  /\ txn' = AfterWrite("-")
  /\ UNCHANGED <<now, transactions, sessions, hb, served, ban, call, buy,
                 link, resp, shard, extras>>

\* faulty variant of Invalid: the blocked flag is not looked at
InvalidByExpiryOnly(lic, t) == lic.expires_at < t

\* license.is_blocked || license.expires_at < now
Invalid(lic, t) == lic.is_blocked \/ lic.expires_at < t

\* License::validate: Err(LicenseNotFound), Err(LicenseInvalid) or
\* Ok(license); it writes nothing
Validate(k) ==
  /\ resp' =
       IF k \notin DOMAIN licenses
         THEN [IdleResp EXCEPT !.op = "validate", !.key = k,
                               !.result = "LicenseNotFound"]
       ELSE IF Invalid(licenses[k], now)
         THEN [IdleResp EXCEPT !.op = "validate", !.key = k,
                               !.result = "LicenseInvalid"]
       ELSE [IdleResp EXCEPT !.op = "validate", !.key = k, !.result = "Ok",
                             !.license = licenses[k]]
  /\ UNCHANGED <<now, licenses, users, transactions, sessions, hb, served,
                 ban, txn, call, buy, link, shard, extras>>

\* link_to_user, first await: get_or_create(tg_user_id)
LinkStart(l, k, u, cap) ==
  /\ link[l].pc = "idle"
  /\ served < cap
  /\ served' = served + 1
  /\ users' = GetOrCreate(u)
  /\ link' = [link EXCEPT ![l] = [IdleLink EXCEPT !.pc = "read", !.key = k,
                                                  !.user = u]]
  /\ txn' = IF u \in DOMAIN users THEN txn ELSE AfterWrite("-")
  /\ UNCHANGED <<now, licenses, transactions, sessions, hb, ban, call, buy>>
  /\ UNCHANGED <<resp, shard, extras>>

\* faulty variant of LinkedExpiry: the clock keeps running from creation
KeepsExpiry(row, t) == row.expires_at

\* the expiry link_to_user writes for the row it read, at time t
LinkedExpiry(row, t) ==
  IF row.tg_user_id = 0
    THEN t + (row.expires_at - row.created_at)
    ELSE row.expires_at

\* faulty variant of AlreadyLinked: any caller may take the license over
AlreadyLinkedNever(row, u) == FALSE

\* license.tg_user_id != 0 && license.tg_user_id != tg_user_id
AlreadyLinked(row, u) == row.tg_user_id # 0 /\ row.tg_user_id # u

\* link_to_user, second await: the SELECT, the owner check and the expiry
LinkRead(l) ==
  /\ link[l].pc = "read"
  /\ LET c == link[l]
     IN  link' = [link EXCEPT ![l] =
           IF c.key \notin DOMAIN licenses
             THEN [c EXCEPT !.pc = "idle", !.result = "LicenseNotFound"]
           ELSE IF AlreadyLinked(licenses[c.key], c.user)
             THEN [c EXCEPT !.pc = "idle", !.result = "LicenseAlreadyLinked"]
           ELSE [c EXCEPT !.pc = "update", !.license = licenses[c.key],
                          !.now = now,
                          !.expires_at = LinkedExpiry(licenses[c.key], now)]]
  /\ UNCHANGED <<now, licenses, users, transactions, sessions, hb, served,
                 ban, txn, call, buy>>
  /\ UNCHANGED <<resp, shard, extras>>

\* link_to_user, third await: UPDATE license SET tg_user_id, expires_at
LinkUpdate(l, io) ==
  /\ link[l].pc = "update"
  /\ LET c == link[l]
     IN  IF io
           THEN /\ licenses' = [licenses EXCEPT
                                  ![c.key].tg_user_id = c.user,
                                  ![c.key].expires_at = c.expires_at]
                /\ link' = [link EXCEPT ![l] =
                              [c EXCEPT !.pc = "idle", !.result = "Ok"]]
                /\ txn' = AfterWrite("-")
           ELSE /\ link' = [link EXCEPT ![l] =
                              [c EXCEPT !.pc = "idle", !.result = "DbErr"]]
                /\ UNCHANGED <<licenses, txn>>
  /\ UNCHANGED <<now, users, transactions, sessions, hb, served, ban, call,
                 buy>>
  /\ UNCHANGED <<resp, shard, extras>>

----------------------------------------------------------------------------
(* Referral settings: roles, discounts and vanity codes *)

Roles == {"User", "Creator", "Admin"}

\* User::set_role: Err(UserNotFound) for an unknown user, else the UPDATE
SetRole(u, role) ==
  /\ u \in DOMAIN users
  /\ users' = [users EXCEPT ![u].role = role]
  /\ txn' = AfterWrite("-")
  /\ UNCHANGED <<now, licenses, transactions, sessions, hb, served, ban,
                 call, buy, link, resp, shard, extras>>

\* Identifiers and codes are strings, taken as sequences of characters.
AsciiDigits == {"0", "1", "2", "3"}
Letters == {"a", "b"}

\* char::is_ascii_digit
IsAsciiDigit(ch) == ch \in AsciiDigits

\* char::is_alphanumeric
IsAlphanumeric(ch) == ch \in AsciiDigits \cup Letters

DigitVal(ch) ==
  IF ch = "0" THEN 0 ELSE IF ch = "1" THEN 1 ELSE IF ch = "2" THEN 2 ELSE 3

\* str.chars().all(|ch| ch.is_ascii_digit())
AllAsciiDigits(str) == \A i \in 1..Len(str) : IsAsciiDigit(str[i])

RECURSIVE DecVal(_)
DecVal(str) ==
  IF str = << >> THEN 0
  ELSE DecVal(SubSeq(str, 1, Len(str) - 1)) * 10 + DigitVal(str[Len(str)])

\* str::parse::<i64>: an optional sign, then one or more ASCII digits;
\* anything else is an Err (here the empty Option)
ParseI64(str) ==
  LET signed == str # << >> /\ str[1] \in {"+", "-"}
      digits == IF signed THEN Tail(str) ELSE str
  IN  IF digits = << >> \/ ~AllAsciiDigits(digits) THEN {}
      ELSE IF signed /\ str[1] = "-" THEN {0 - DecVal(digits)}
      ELSE {DecVal(digits)}

\* faulty variant of CodeOwnerAllowed: the owner's role is not looked at
CodeOwnerAnyRole(row) == row.role \in Roles

\* find_by_code: referrer.role is Creator or Admin
CodeOwnerAllowed(row) == row.role = "Creator" \/ row.role = "Admin"

\* the rows whose referral_code column equals the code (at most one: the
\* column has a unique index)
OwnersOf(str) == {u \in DOMAIN users : users[u].referral_code = {str}}

\* Referral::resolve_code: the Result as <<result, user id>>
ResolveCode(str) ==
  LET id == ParseI64(str)
  IN  IF id # {}
        THEN IF The(id) \in DOMAIN users
               THEN <<"Ok", The(id)>>
               ELSE <<"ReferralNotFound", 0>>
      ELSE IF OwnersOf(str) = {} THEN <<"ReferralNotFound", 0>>
      ELSE LET u == The(OwnersOf(str))
           IN  IF CodeOwnerAllowed(users[u])
                 THEN <<"Ok", u>>
                 ELSE <<"ReferralNotFound", 0>>

\* a call of Referral::resolve_code and its Result
ResolveCodeCall(str) ==
  /\ resp' = [IdleResp EXCEPT !.op = "resolve_code", !.code = {str},
                              !.result = ResolveCode(str)[1],
                              !.value = ResolveCode(str)[2]]
  /\ UNCHANGED <<now, licenses, users, transactions, sessions, hb, served,
                 ban, txn, call, buy, link, shard, extras>>

\* c.chars().all(|ch| ch.is_alphanumeric() || ch == '_' || ch == '-')
CodeChar(ch) == IsAlphanumeric(ch) \/ ch = "_" \/ ch = "-"

AllCodeChars(str) == \A i \in 1..Len(str) : CodeChar(str[i])

\* faulty variant of PurelyNumeric: no code counts as numeric
PurelyNumericNever(str) == FALSE

\* c.chars().all(|ch| ch.is_ascii_digit())
PurelyNumeric(str) == AllAsciiDigits(str)

\* the checks of set_referral_code on Some(c), in the order of the code
CodeRejected(str, u) ==
  \/ Len(str) < 3 \/ Len(str) > 20
  \/ ~AllCodeChars(str)
  \/ PurelyNumeric(str)
  \/ \E x \in OwnersOf(str) : x # u

\* User::set_referral_code: the Result
SetReferralCodeResult(u, code) ==
  IF u \notin DOMAIN users THEN "UserNotFound"
  ELSE IF users[u].role # "Creator" /\ users[u].role # "Admin"
    THEN "InvalidArgs"
  ELSE IF code # {} /\ CodeRejected(The(code), u) THEN "InvalidArgs"
  ELSE "Ok"

\* User::set_referral_code(tg_user_id, code): the UPDATE on Ok
SetReferralCode(u, code) ==
  /\ resp' = [IdleResp EXCEPT !.op = "set_referral_code", !.ref = {u},
                              !.code = code,
                              !.result = SetReferralCodeResult(u, code)]
  /\ IF SetReferralCodeResult(u, code) = "Ok"
       THEN /\ users' = [users EXCEPT ![u].referral_code = code]
            /\ txn' = AfterWrite("-")
       ELSE UNCHANGED <<users, txn>>
  /\ UNCHANGED <<now, licenses, transactions, sessions, hb, served, ban,
                 call, buy, link, shard, extras>>

\* a call of User::get_or_create for a user not yet in the table
GetOrCreateCall(u) ==
  /\ u \notin DOMAIN users
  /\ users' = GetOrCreate(u)
  /\ txn' = AfterWrite("-")
  /\ UNCHANGED <<now, licenses, transactions, sessions, hb, served, ban,
                 call, buy, link, resp, shard, extras>>

\* faulty variant of SelfReferral: the two ids are not compared
SelfReferralNever(u, ref) == FALSE

\* if tg_user_id == ref_id
SelfReferral(u, ref) == u = ref

\* User::set_referred_by: the Result
SetReferredByResult(u, referrer) ==
  IF u \notin DOMAIN users THEN "UserNotFound"
  ELSE IF referrer # {} /\ SelfReferral(u, The(referrer)) THEN "InvalidArgs"
  ELSE IF referrer # {} /\ The(referrer) \notin DOMAIN users
    THEN "ReferralNotFound"
  ELSE "Ok"

\* User::set_referred_by(tg_user_id, referrer_id): the UPDATE on Ok
SetReferredBy(u, referrer) ==
  /\ resp' = [IdleResp EXCEPT !.op = "set_referred_by", !.value = u,
                              !.ref = referrer,
                              !.result = SetReferredByResult(u, referrer)]
  /\ IF SetReferredByResult(u, referrer) = "Ok"
       THEN /\ users' = [users EXCEPT ![u].referred_by = referrer]
            /\ txn' = AfterWrite("-")
       ELSE UNCHANGED <<users, txn>>
  /\ UNCHANGED <<now, licenses, transactions, sessions, hb, served, ban,
                 call, buy, link, shard, extras>>

\* Referral::set_discount_percent (/setref <user_id> <rate> <discount>):
\* the i32 is stored as given
SetDiscountPercent(u, d) ==
  /\ u \in DOMAIN users
  /\ users' = [users EXCEPT ![u].discount_percent = d]
  /\ txn' = AfterWrite("-")
  /\ UNCHANGED <<now, licenses, transactions, sessions, hb, served, ban,
                 call, buy, link, resp, shard, extras>>

\* a call of Referral::discount_percent and the i32 it returns
DiscountPercentCall(ref) ==
  /\ resp' = [IdleResp EXCEPT !.op = "discount_percent", !.ref = ref,
                              !.value = DiscountPercent(ref)]
  /\ UNCHANGED <<now, licenses, users, transactions, sessions, hb, served,
                 ban, txn, call, buy, link, shard, extras>>

----------------------------------------------------------------------------
(* Payments: pending invoices and Payment::check_and_process               *)

Invoices == {1, 2}

\* chrono::Duration::hours(1)
InvoiceTtlSecs == 3600

\* the description of the deposit of a paid invoice
InvoiceNote(id) == <<"CryptoBot deposit", id>>

\* the rows of the log that credit invoice id
DepositsFor(id) ==
  {i \in 1..Len(transactions) : transactions[i].description = InvoiceNote(id)}

\* Payment::save_pending, after CryptoBot issued invoice id (ids are not
\* reissued): amount_usdt whole, so the f64 product is exact
SavePending(id, u, amount_usdt, referrer) ==
  /\ id \notin DOMAIN pending_invoices
  /\ DepositsFor(id) = {}
  /\ \A q \in Checkers : \A j \in 1..Len(check[q].pending) :
       check[q].pending[j].invoice_id # id
  /\ pending_invoices' =
       [i \in DOMAIN pending_invoices \cup {id} |->
          IF i = id
            THEN [user_id |-> u, amount_nano |-> amount_usdt * NANO_USDT,
                  referrer_id |-> referrer,
                  expires_at |-> now + InvoiceTtlSecs]
            ELSE pending_invoices[i]]
  /\ txn' = AfterWrite("-")
  /\ UNCHANGED <<now, licenses, users, transactions, sessions, hb, served,
                 ban, call, buy, link, resp, shard, check, claimed_promos,
                 claim>>

\* the ids of S, latest first (ids grow with created_at)
RECURSIVE Descending(_)
Descending(S) ==
  IF S = {} THEN << >>
  ELSE LET m == CHOOSE x \in S : \A y \in S : y <= x
       IN  <<m>> \o Descending(S \ {m})

\* Payment::pending_by_user: the user's rows that have not expired
PendingByUser(u) ==
  Descending({i \in DOMAIN pending_invoices :
                /\ pending_invoices[i].user_id = u
                /\ pending_invoices[i].expires_at > now})

\* the for loop from position c.at on: the first invoice reported paid
\* (deposit) or expired (delete), or the end of the list
RECURSIVE Resume(_)
Resume(c) ==
  IF c.at > Len(c.pending)
    THEN [c EXCEPT !.pc = "idle", !.result = "Ok"]
  ELSE IF c.pending[c.at].invoice_id \in c.paid
    THEN [c EXCEPT !.pc = "deposit"]
  ELSE IF c.pending[c.at].invoice_id \in c.expired
    THEN [c EXCEPT !.pc = "delete"]
  ELSE Resume([c EXCEPT !.at = @ + 1])

\* check_and_process, first await: pending_by_user; the rows are kept by
\* value for the rest of the call
CheckStart(p, u, cap) ==
  /\ check[p].pc = "idle"
  /\ served < cap
  /\ served' = served + 1
  /\ LET ids == PendingByUser(u)
         rows == [j \in 1..Len(ids) |->
                    [invoice_id |-> ids[j],
                     user_id |-> pending_invoices[ids[j]].user_id,
                     amount_nano |-> pending_invoices[ids[j]].amount_nano,
                     referrer_id |-> pending_invoices[ids[j]].referrer_id]]
     IN  check' = [check EXCEPT ![p] =
                     IF rows = << >>
                       THEN [IdleCheck EXCEPT !.user = u, !.result = "Ok"]
                       ELSE [IdleCheck EXCEPT !.pc = "fetch", !.user = u,
                                              !.pending = rows]]
  /\ UNCHANGED <<now, licenses, users, transactions, sessions, hb, ban, txn,
                 call, buy, link, resp, shard, pending_invoices,
                 claimed_promos, claim>>

\* second await: cryptobot.get_invoices(ids).unwrap_or_default(); CryptoBot
\* reports each invoice as paid, as expired, or as neither (active, or not
\* in the answer, or the call failed)
CheckFetch(p, paid, expired) ==
  /\ check[p].pc = "fetch"
  /\ paid \cap expired = {}
  /\ paid \cup expired \subseteq
       {check[p].pending[j].invoice_id : j \in 1..Len(check[p].pending)}
  /\ check' = [check EXCEPT ![p] =
                 Resume([@ EXCEPT !.paid = paid, !.expired = expired,
                                  !.at = 1])]
  /\ UNCHANGED <<now, licenses, users, transactions, sessions, hb, served,
                 ban, txn, call, buy, link, resp, shard, pending_invoices,
                 claimed_promos, claim>>

\* the service call the loop is at for a paid invoice: Balance::deposit,
\* then Referral::record_sale when the invoice has a referrer
CheckCall(p) ==
  LET c == check[p]
      inv == c.pending[c.at]
  IN  IF c.pc \in {"deposit", "deposit_commit"}
        THEN [op |-> "deposit", user |-> inv.user_id,
              amount |-> inv.amount_nano,
              note |-> InvoiceNote(inv.invoice_id)]
        ELSE [op |-> "record_sale", user |-> The(inv.referrer_id),
              amount |-> inv.amount_nano, note |-> "-"]

\* where the call goes after deposit or record_sale: `deposit(..).await?`
\* returns the error; `let _ = record_sale(..)` drops it
AfterCheckCall(c, ok, err) ==
  IF c.pc \in {"deposit", "deposit_commit"}
    THEN IF ok
           THEN [c EXCEPT !.pc = IF c.pending[c.at].referrer_id # {}
                                   THEN "sale" ELSE "delete"]
           ELSE [c EXCEPT !.pc = "idle", !.result = err]
    ELSE [c EXCEPT !.pc = "delete"]

CheckCallBegin(p) ==
  /\ check[p].pc \in {"deposit", "sale"}
  /\ LET a == CheckCall(p)
         out == BeginOutcome(a.op, a.user, a.amount)
     IN  IF out = "open"
           THEN /\ check' = [check EXCEPT ![p] =
                               [@ EXCEPT !.pc = IF @ = "deposit"
                                                  THEN "deposit_commit"
                                                  ELSE "sale_commit",
                                         !.snap = users[a.user]]]
                /\ txn' = AfterBegin(p)
           ELSE /\ check' = [check EXCEPT ![p] = AfterCheckCall(@, FALSE, out)]
                /\ txn' = txn
  /\ UNCHANGED <<now, licenses, users, transactions, sessions, hb, served,
                 ban, call, buy, link, resp, shard, pending_invoices,
                 claimed_promos, claim>>

CheckCallCommit(p, io) ==
  /\ check[p].pc \in {"deposit_commit", "sale_commit"}
  /\ LET a == CheckCall(p)
         c == check[p]
     IN  IF io /\ Committable(p)
           THEN /\ Committed(p, a.op, a.user, c.snap, a.amount, a.note)
                /\ check' = [check EXCEPT ![p] = AfterCheckCall(c, TRUE, "-")]
           ELSE /\ check' = [check EXCEPT ![p] =
                               AfterCheckCall(c, FALSE, "DbErr")]
                /\ txn' = AfterRollback(p)
                /\ \E stage \in (IF io THEN {"commit"} ELSE FailStages) :
                     RolledBack(a.op, a.user, c.snap, a.amount, stage)
  /\ UNCHANGED <<now, licenses, sessions, hb, served, ban, call, buy, link,
                 resp, shard, pending_invoices, claimed_promos, claim>>

\* Payment::delete_pending: DELETE by primary key; a row already gone is
\* no error
DeletePending(id) ==
  [i \in DOMAIN pending_invoices \ {id} |-> pending_invoices[i]]

\* self.delete_pending(..).await? for a paid invoice (then the result is
\* pushed) or an expired one, and on with the loop
CheckDelete(p, io) ==
  /\ check[p].pc = "delete"
  /\ LET c == check[p]
         inv == c.pending[c.at]
     IN  IF io
           THEN /\ pending_invoices' = DeletePending(inv.invoice_id)
                /\ txn' = AfterWrite("-")
                /\ check' = [check EXCEPT ![p] =
                     Resume([c EXCEPT
                               !.results =
                                  IF inv.invoice_id \in c.paid
                                    THEN Append(@, inv.invoice_id) ELSE @,
                               !.at = @ + 1])]
           ELSE /\ check' = [check EXCEPT ![p] =
                               [c EXCEPT !.pc = "idle", !.result = "DbErr"]]
                /\ UNCHANGED <<pending_invoices, txn>>
  /\ UNCHANGED <<now, licenses, users, transactions, sessions, hb, served,
                 ban, call, buy, link, resp, shard, claimed_promos, claim>>

----------------------------------------------------------------------------
(* Promo: License::claim_promo (the "free week" button)                    *)

PromoNames == {"first_promo"}
PromoKeys == {"k1", "k2", "k3"}

\* the period is_promo_active tests, on the clock of the runs
PromoWindow == [start |-> 0, end |-> DaySecs]

\* License::is_promo_active: now >= start && now <= end
PromoActive(t) == t >= PromoWindow.start /\ t <= PromoWindow.end

\* claim_promo up to its first await: the period, then get_or_create
ClaimStart(p, u, promo, cap) ==
  /\ claim[p].pc = "idle"
  /\ served < cap
  /\ served' = served + 1
  /\ IF PromoActive(now)
       THEN /\ users' = GetOrCreate(u)
            /\ claim' = [claim EXCEPT ![p] =
                           [IdleClaim EXCEPT !.pc = "find", !.user = u,
                                             !.promo = promo]]
            /\ txn' = IF u \in DOMAIN users THEN txn ELSE AfterWrite("-")
       ELSE /\ claim' = [claim EXCEPT ![p] =
                           [IdleClaim EXCEPT !.user = u, !.promo = promo,
                                             !.result = "PromoInactive"]]
            /\ UNCHANGED <<users, txn>>
  /\ UNCHANGED <<now, licenses, transactions, sessions, hb, ban, call, buy,
                 link, resp, shard, pending_invoices, check, claimed_promos>>

\* promo::Entity::find_by_id((tg_user_id, promo_name)): Claimed when found
ClaimFind(p) ==
  /\ claim[p].pc = "find"
  /\ claim' = [claim EXCEPT ![p] =
                 IF <<@.user, @.promo>> \in claimed_promos
                   THEN [@ EXCEPT !.pc = "idle", !.result = "PromoClaimed"]
                   ELSE [@ EXCEPT !.pc = "create"]]
  /\ UNCHANGED <<now, licenses, users, transactions, sessions, hb, served,
                 ban, txn, call, buy, link, resp, shard, pending_invoices,
                 check, claimed_promos>>

\* self.create(tg_user_id, LicenseType::Trial, 7).await?
ClaimCreate(p, io) ==
  /\ claim[p].pc = "create"
  /\ IF io
       THEN /\ \E k \in PromoKeys \ DOMAIN licenses :
                 /\ licenses' = Created(k, claim[p].user, "Trial", 7)
                 /\ claim' = [claim EXCEPT ![p] =
                                [@ EXCEPT !.pc = "insert", !.key = k]]
            /\ txn' = AfterWrite("-")
       ELSE /\ claim' = [claim EXCEPT ![p] =
                           [@ EXCEPT !.pc = "idle", !.result = "DbErr"]]
            /\ UNCHANGED <<licenses, txn>>
  /\ UNCHANGED <<now, users, transactions, sessions, hb, served, ban, call,
                 buy, link, resp, shard, pending_invoices, check,
                 claimed_promos>>

\* the INSERT into claimed_promos, whose primary key is (tg_user_id,
\* promo_name): it fails when the row is there, or on a storage failure
ClaimInsert(p, io) ==
  /\ claim[p].pc = "insert"
  /\ LET c == claim[p]
     IN  IF io /\ <<c.user, c.promo>> \notin claimed_promos
           THEN /\ claimed_promos' = claimed_promos \cup {<<c.user, c.promo>>}
                /\ claim' = [claim EXCEPT ![p] =
                               [c EXCEPT !.pc = "idle", !.result = "Ok"]]
                /\ txn' = AfterWrite("-")
           ELSE /\ claim' = [claim EXCEPT ![p] =
                               [c EXCEPT !.pc = "idle", !.result = "DbErr"]]
                /\ UNCHANGED <<claimed_promos, txn>>
  /\ UNCHANGED <<now, licenses, users, transactions, sessions, hb, served,
                 ban, call, buy, link, resp, shard, pending_invoices, check>>

----------------------------------------------------------------------------
(* Initial states *)


InitIdle ==
  /\ now = 0
  /\ sessions = [k \in {} |-> << >>]
  /\ hb = [r \in Reqs |-> IdleReq("none")]
  /\ served = 0
  /\ ban = IdleBan(0)
  /\ txn = [q \in Procs |-> "none"]
  /\ call = [q \in Callers |-> IdleCall]
  /\ buy = [q \in Buyers |-> IdleBuy]
  /\ link = [q \in Linkers |-> IdleLink]
  /\ resp = IdleResp
  /\ pending_invoices = [i \in {} |-> NoInvoice]
  /\ check = [q \in Checkers |-> IdleCheck]
  /\ claimed_promos = {}
  /\ claim = [q \in Claimers |-> IdleClaim]

\* the runs that take each critical section of the registry in one step
\* do not look at the shards
InitQuiet ==
  /\ InitIdle
  /\ shard = [k \in SessKeys |-> "s1"]

\* Registry runs: user 1 exists; each key is unknown or was issued to user 1
\* at time 0 by License::create, for 0 days (/buy with less than a day) or 1.
InitSessions ==
  /\ InitQuiet
  /\ transactions = << >>
  /\ users = [u \in {1} |-> NewUser]
  /\ \E known \in SUBSET SessKeys :
       \E days \in [known -> {0, 1}] :
         licenses = [k \in known |-> NewLicense(1, "Pro", days[k], 0)]

NextSessions ==
  \/ \E r \in SessReqs, k \in SessKeys, m \in SessDevices :
       HeartbeatRecv(r, k, m, MaxHeartbeats)
  \/ \E r \in SessReqs : HeartbeatLookup(r)
  \/ \E r \in SessReqs : HeartbeatAdmit(r)
  \/ GcSessions
  \/ \E k \in SessKeys : BanSetBlocked(k)
  \/ BanDropSessions
  \/ \E k \in SessKeys : Unban(k)
  \/ Tick(TickSecs, MaxClock)

SpecSessions == InitSessions /\ [][NextSessions]_vars

\* Sweep runs: the registry runs with the heartbeats taken one at a time.
NextSweep ==
  \/ \E r \in QuotaReqs, k \in SessKeys, m \in SessDevices :
       HeartbeatRecv(r, k, m, MaxSweepHeartbeats)
  \/ \E r \in QuotaReqs : HeartbeatLookup(r)
  \/ \E r \in QuotaReqs : HeartbeatAdmit(r)
  \/ GcSessions
  \/ \E k \in SessKeys : BanSetBlocked(k)
  \/ BanDropSessions
  \/ \E k \in SessKeys : Unban(k)
  \/ Tick(TickSecs, MaxSweepClock)

SpecSweep == InitSessions /\ [][NextSweep]_vars

\* Lock runs: the registry runs with the map's locks shown; every key
\* hashes to one of the shards, which one is the hasher's choice.
InitLocks ==
  /\ InitIdle
  /\ shard \in [SessKeys -> Shards]
  /\ transactions = << >>
  /\ users = [u \in {1} |-> NewUser]
  /\ \E known \in SUBSET SessKeys :
       licenses = [k \in known |-> NewLicense(1, "Pro", 1, 0)]

NextLocks ==
  \/ \E r \in SessReqs, k \in SessKeys, m \in SessDevices :
       HeartbeatGetMut(r, k, m, MaxLockHeartbeats)
  \/ \E r \in SessReqs : HeartbeatHot(r)
  \/ \E r \in SessReqs : HeartbeatLookup(r)
  \/ \E r \in SessReqs : HeartbeatEntry(r)
  \/ \E r \in SessReqs : HeartbeatPush(r)
  \/ Tick(TickSecs, MaxClock)

SpecLocks == InitLocks /\ [][NextLocks]_vars

\* Referral runs: users 1 and 2 exist with any role, user 2 with a discount
\* of 3 (the default) or 10; user 3 does not exist.
RefUsers == {1, 2}
RefDiscounts == {DefaultDiscountPercent, 10}

Rep(ch, n) == [i \in 1..n |-> ch]

\* codes offered to set_referral_code: accepted ones, a short one, long
\* ones at and beyond the limit, a bad character, digits only, and a sign
\* followed by digits
RefCodes ==
  {<<"a", "b", "1">>, <<"a", "_", "b">>, <<"a", "b">>, Rep("a", 20),
   Rep("a", 21), <<"a", "!", "b">>, <<"1", "2", "3">>, <<"0", "0", "1">>,
   <<"-", "0", "1">>}

\* identifiers offered to resolve_code: the codes, and the ids of users 1
\* to 3 in several spellings
RefIdentifiers ==
  RefCodes \cup {<<"1">>, <<"2">>, <<"3">>, <<"+", "1">>, <<"0", "2">>,
                 << >>, <<"-">>, <<"1", "a">>}

InitReferral ==
  /\ InitQuiet
  /\ transactions = << >>
  /\ licenses = [k \in {} |-> NoLicense]
  /\ \E role \in [RefUsers -> Roles], discount \in RefDiscounts :
       users = [u \in RefUsers |->
                  [NewUser EXCEPT !.role = role[u],
                                  !.discount_percent =
                                     IF u = 2 THEN discount ELSE @]]

NextReferral ==
  \/ \E u \in UserIds, role \in Roles : SetRole(u, role)
  \/ \E ref \in Opt(UserIds) : DiscountPercentCall(ref)
  \/ \E str \in RefIdentifiers : ResolveCodeCall(str)
  \/ \E u \in UserIds, code \in Opt(RefCodes) : SetReferralCode(u, code)

SpecReferral == InitReferral /\ [][NextReferral]_vars

\* Referrer runs: user 1 exists, users 2 and 3 arrive later; anyone sets or
\* clears anyone as their referrer (/ref).
InitReferrer ==
  /\ InitQuiet
  /\ transactions = << >>
  /\ licenses = [k \in {} |-> NoLicense]
  /\ users = [u \in {1} |-> NewUser]

NextReferrer ==
  \/ \E u \in UserIds : GetOrCreateCall(u)
  \/ \E u \in UserIds, referrer \in Opt(UserIds) : SetReferredBy(u, referrer)

SpecReferrer == InitReferrer /\ [][NextReferrer]_vars

\* Quota runs: one key, issued to user 1 at time 0 for a day; its
\* max_sessions column holds what License::create writes, or 5.
InitQuota ==
  /\ InitQuiet
  /\ transactions = << >>
  /\ users = [u \in {1} |-> NewUser]
  /\ \E ms \in {DefaultMaxSessions, SessionLimit} :
       licenses = [k \in QuotaKeys |->
                     [NewLicense(1, "Pro", 1, 0) EXCEPT !.max_sessions = ms]]

NextQuota ==
  \/ \E r \in QuotaReqs, k \in QuotaKeys, m \in QuotaDevices :
       HeartbeatRecv(r, k, m, MaxQuotaHeartbeats)
  \/ \E r \in QuotaReqs : HeartbeatLookup(r)
  \/ \E r \in QuotaReqs : HeartbeatAdmit(r)
  \/ GcSessions
  \/ Tick(TickSecs, MaxClock)

SpecQuota == InitQuota /\ [][NextQuota]_vars

\* Ledger runs: user 1 is a plain user, user 2 a creator (/setrole), user 3
\* does not exist; each balance starts at 0 with no row, or at 20 with the
\* row of the deposit that made it.
LedgerAmounts == {-1, 0, 20, 30}

FundedBy(u, funds) ==
  IF funds = 0 THEN << >>
  ELSE << [user_id |-> u, amount |-> funds, tx_type |-> "Deposit",
           description |-> "-"] >>

InitLedger ==
  /\ InitQuiet
  /\ licenses = [k \in {} |-> NoLicense]
  /\ \E f1, f2 \in {0, 20} :
       /\ users = [u \in {1, 2} |->
                     IF u = 2 THEN [NewUser EXCEPT !.role = "Creator",
                                                   !.balance = f2]
                     ELSE [NewUser EXCEPT !.balance = f1]]
       /\ transactions = FundedBy(1, f1) \o FundedBy(2, f2)

NextBalance ==
  \/ \E p \in Callers, op \in Mutators, u \in UserIds, a \in LedgerAmounts :
       CallBegin(p, op, u, a, MaxCalls)
  \/ \E p \in Callers, io \in BOOLEAN : CallCommit(p, io)

SpecBalance == InitLedger /\ [][NextBalance]_vars

SaleAmounts == {20, 25}

NextLedger ==
  \/ \E p \in Callers, op \in Mutators \cup {"record_sale"}, u \in UserIds,
        a \in SaleAmounts :
       CallBegin(p, op, u, a, MaxCalls)
  \/ \E p \in Callers, io \in BOOLEAN : CallCommit(p, io)

SpecLedger == InitLedger /\ [][NextLedger]_vars

\* Purchase runs: user 1 is the buyer, with nothing, the price of a month
\* or of three on the balance (deposited); user 2 may be the buyer's
\* referrer, a plain user or a creator, with the default or an admin-set
\* (/setref) commission rate and discount; key k1 is a license of user 1.
InitPurchase ==
  /\ now = 0
  /\ sessions = [k \in {} |-> << >>]
  /\ hb = [r \in Reqs |-> IdleReq("none")]
  /\ served = 0
  /\ ban = IdleBan(0)
  /\ txn = [q \in Procs |-> "none"]
  /\ call = [q \in Callers |-> IdleCall]
  /\ buy = [q \in Buyers |-> IdleBuy]
  /\ link = [q \in Linkers |-> IdleLink]
  /\ resp = IdleResp
  /\ shard = [k \in SessKeys |-> "s1"]
  /\ pending_invoices = [i \in {} |-> NoInvoice]
  /\ check = [q \in Checkers |-> IdleCheck]
  /\ claimed_promos = {}
  /\ claim = [q \in Claimers |-> IdleClaim]
  /\ licenses = [k \in {"k1"} |-> NewLicense(1, "Pro", 30, 0)]
  /\ \E funds \in {0, MONTH_PRICE_NANO, 3 * MONTH_PRICE_NANO},
        ref \in Opt({2}),
        role \in {"User", "Creator"},
        rate \in {DefaultCommissionRate, 20},
        discount \in {DefaultDiscountPercent, 10} :
       /\ users = [u \in {1, 2} |->
                     IF u = 1
                       THEN [NewUser EXCEPT !.balance = funds,
                                            !.referred_by = ref]
                       ELSE [NewUser EXCEPT !.role = role,
                                            !.commission_rate = rate,
                                            !.discount_percent = discount]]
       /\ transactions = FundedBy(1, funds)

NextPurchase ==
  \/ \E b \in Buyers, kind \in {"buy", "extend"}, plan \in Plans,
        k \in PurchaseKeys :
       BuyStart(b, kind, 1, plan, k, MaxPurchases)
  \/ \E b \in Buyers : BuyPrice(b)
  \/ \E b \in Buyers : BuyCallBegin(b)
  \/ \E b \in Buyers, io \in BOOLEAN : BuyCallCommit(b, io)
  \/ \E b \in Buyers : BuyRefRead(b)
  \/ \E b \in Buyers, io \in BOOLEAN : BuyLicense(b, io)
  \/ Tick(DaySecs, PurchaseDays * DaySecs)

SpecPurchase == InitPurchase /\ [][NextPurchase]_vars

\* Revocation runs: user 1 owns license k1 and has the price of three
\* months on the balance; user 2, a creator, may be the referrer.  An admin
\* bans and unbans k1 and extends it by a week (/buy <key> 7d); the owner
\* pays for extensions; the key is validated.
InitRevoked ==
  /\ InitQuiet
  /\ licenses = [k \in {"k1"} |-> NewLicense(1, "Pro", 30, 0)]
  /\ \E ref \in Opt({2}) :
       users = [u \in {1, 2} |->
                  IF u = 1
                    THEN [NewUser EXCEPT !.balance = 3 * MONTH_PRICE_NANO,
                                         !.referred_by = ref]
                    ELSE [NewUser EXCEPT !.role = "Creator"]]
  /\ transactions = FundedBy(1, 3 * MONTH_PRICE_NANO)

NextRevoked ==
  \/ BanSetBlocked("k1")
  \/ BanDropSessions
  \/ Unban("k1")
  \/ Expires("k1", 7)
  \/ \E b \in Buyers, plan \in Plans :
       BuyStart(b, "extend", 1, plan, "k1", MaxPurchases)
  \/ \E b \in Buyers : BuyPrice(b)
  \/ \E b \in Buyers : BuyCallBegin(b)
  \/ \E b \in Buyers, io \in BOOLEAN : BuyCallCommit(b, io)
  \/ \E b \in Buyers : BuyRefRead(b)
  \/ \E b \in Buyers, io \in BOOLEAN : BuyLicense(b, io)
  \/ Validate("k1")
  \/ Tick(DaySecs, PurchaseDays * DaySecs)

SpecRevoked == InitRevoked /\ [][NextRevoked]_vars

\* Discount runs: buyer 1, referred by creator 2, has the price of three
\* months on the balance and owns k1; an admin sets the discount of user 2
\* to any of StoredDiscounts between the buyer's purchases and extensions.
StoredDiscounts == {-5, 0, 99, 100, 101}

InitDiscount ==
  /\ InitQuiet
  /\ licenses = [k \in {"k1"} |-> NewLicense(1, "Pro", 30, 0)]
  /\ users = [u \in {1, 2} |->
                IF u = 1
                  THEN [NewUser EXCEPT !.balance = 3 * MONTH_PRICE_NANO,
                                       !.referred_by = {2}]
                  ELSE [NewUser EXCEPT !.role = "Creator"]]
  /\ transactions = FundedBy(1, 3 * MONTH_PRICE_NANO)

NextDiscount ==
  \/ /\ \A b \in Buyers : buy[b].pc = "idle"
     /\ \E d \in StoredDiscounts : SetDiscountPercent(2, d)
  \/ \E b \in Buyers, kind \in {"buy", "extend"}, plan \in Plans :
       BuyStart(b, kind, 1, plan, "k1", MaxPurchases)
  \/ \E b \in Buyers : BuyPrice(b)
  \/ \E b \in Buyers : BuyCallBegin(b)
  \/ \E b \in Buyers, io \in BOOLEAN : BuyCallCommit(b, io)
  \/ \E b \in Buyers : BuyRefRead(b)
  \/ \E b \in Buyers, io \in BOOLEAN : BuyLicense(b, io)

SpecDiscount == InitDiscount /\ [][NextDiscount]_vars

\* Payment runs: user 1, who may be referred by user 2, opens deposit
\* invoices of 2 USDT and presses "check payment", possibly twice at once.
MaxChecks == 2

InitPayment ==
  /\ InitQuiet
  /\ transactions = << >>
  /\ licenses = [k \in {} |-> NoLicense]
  /\ \E ref \in Opt({2}) :
       users = [u \in {1, 2} |->
                  IF u = 1 THEN [NewUser EXCEPT !.referred_by = ref]
                  ELSE NewUser]

NextPayment ==
  \/ \E id \in Invoices : SavePending(id, 1, 2, users[1].referred_by)
  \/ \E p \in Checkers : CheckStart(p, 1, MaxChecks)
  \/ \E p \in Checkers, paid \in SUBSET Invoices, expired \in SUBSET Invoices :
       CheckFetch(p, paid, expired)
  \/ \E p \in Checkers : CheckCallBegin(p)
  \/ \E p \in Checkers, io \in BOOLEAN : CheckCallCommit(p, io)
  \/ \E p \in Checkers, io \in BOOLEAN : CheckDelete(p, io)
  \/ Tick(InvoiceTtlSecs, InvoiceTtlSecs)

SpecPayment == InitPayment /\ [][NextPayment]_vars

\* Promo runs: users 1 and 2 press the trial button, possibly twice at
\* once, during the promo and after it.
MaxClaims == 2

InitPromo ==
  /\ InitQuiet
  /\ transactions = << >>
  /\ licenses = [k \in {} |-> NoLicense]
  /\ users = [u \in {1} |-> NewUser]

NextPromo ==
  \/ \E p \in Claimers, u \in {1, 2}, promo \in PromoNames :
       ClaimStart(p, u, promo, MaxClaims)
  \/ \E p \in Claimers : ClaimFind(p)
  \/ \E p \in Claimers, io \in BOOLEAN : ClaimCreate(p, io)
  \/ \E p \in Claimers, io \in BOOLEAN : ClaimInsert(p, io)
  \/ Tick(DaySecs, LicenseDays * DaySecs)

SpecPromo == InitPromo /\ [][NextPromo]_vars

\* License runs: no license yet; a gift of 7 or 30 days is created under
\* key k1, linked by users 1 and 2 (who also try the unknown key k2), and
\* extended, over a clock that moves by days.
InitLicense ==
  /\ InitQuiet
  /\ transactions = << >>
  /\ licenses = [k \in {} |-> NoLicense]
  /\ users = [u \in {1} |-> NewUser]

NextLicense ==
  \/ \E k \in GiftKeys, days \in {7, 30} : CreateGift(k, "Pro", days)
  \/ \E k \in GiftKeys : Expires(k, 30)
  \/ \E l \in Linkers, k \in LinkKeys, u \in {1, 2} :
       LinkStart(l, k, u, MaxLinks)
  \/ \E l \in Linkers : LinkRead(l)
  \/ \E l \in Linkers, io \in BOOLEAN : LinkUpdate(l, io)
  \/ Tick(DaySecs, LicenseDays * DaySecs)

SpecLicense == InitLicense /\ [][NextLicense]_vars

\* Validity runs: no license yet; k1 is created as a gift and k2 for user 1,
\* for 7 or 30 days; keys are banned, unbanned, extended by 7 or 30 days and
\* validated (k3 is never issued), over a clock that moves by weeks.
ValidityKeys == {"k1", "k2", "k3"}

NextValidity ==
  \/ \E days \in {7, 30} : CreateGift("k1", "Pro", days)
  \/ \E days \in {7, 30} : CreateLicense("k2", 1, "Pro", days)
  \/ \E k \in ValidityKeys : BanSetBlocked(k)
  \/ BanDropSessions
  \/ \E k \in ValidityKeys : Unban(k)
  \/ \E k \in ValidityKeys, days \in {7, 30} : Expires(k, days)
  \/ \E k \in ValidityKeys : Validate(k)
  \/ Tick(ValidityStepDays * DaySecs, ValidityDays * DaySecs)

SpecValidity == InitLicense /\ [][NextValidity]_vars

----------------------------------------------------------------------------
(* Claims about the session registry *)

DevicesOf(k) == {Group(k)[i].machine_id : i \in 1..Len(Group(k))}

\* C1: in every reachable state the number of sessions held for a license
\* key is at most the max_sessions value stored on that license's record.
C1_SessionsWithinMaxSessions ==
  \A k \in DOMAIN sessions :
    k \in DOMAIN licenses => Len(sessions[k]) <= licenses[k].max_sessions

\* C3: a device id appears at most once in a key's session group, whatever
\* the interleaving of heartbeats.
C3_DeviceAtMostOnce ==
  \A k \in DOMAIN sessions :
    \A i, j \in 1..Len(sessions[k]) :
      i # j => sessions[k][i].machine_id # sessions[k][j].machine_id

\* the group of k holds 5 distinct devices, none stale at the current time,
\* and the license record says max_sessions = 5
FullAndFresh(k) ==
  /\ k \in DOMAIN licenses
  /\ licenses[k].max_sessions = SessionLimit
  /\ Cardinality(DevicesOf(k)) = SessionLimit
  /\ \A i \in 1..Len(Group(k)) : Fresh(Group(k)[i], now)

\* C4: with 5 distinct devices holding fresh sessions for a key, the
\* admission step of a heartbeat from a 6th device answers CONFLICT (limit
\* reached) and leaves the registry as it was; and no group ever holds more
\* than 5 distinct devices.
C4_SixthDeviceRejected ==
  /\ [](\A k \in DOMAIN sessions : Cardinality(DevicesOf(k)) <= SessionLimit)
  /\ [][\A r \in Reqs :
          ( /\ hb[r].pc = "admit"
            /\ hb'[r].pc = "idle"
            /\ FullAndFresh(hb[r].key)
            /\ hb[r].machine_id \notin DevicesOf(hb[r].key) )
          => (hb'[r].status = "CONFLICT" /\ sessions' = sessions)]_vars

C4_Witness ==
  \E r \in Reqs, k \in DOMAIN sessions :
    /\ hb[r].status = "CONFLICT"
    /\ FullAndFresh(k)

----------------------------------------------------------------------------
(* Claims about the balance ledger *)

RECURSIVE SumFor(_, _)
\* the sum of the amounts of user u's transaction rows
SumFor(rows, u) ==
  IF rows = << >> THEN 0
  ELSE (IF Head(rows).user_id = u THEN Head(rows).amount ELSE 0)
       + SumFor(Tail(rows), u)

\* C2: every user's stored balance equals the sum of the amounts of that
\* user's transaction rows, after any interleaving of the balance mutators
\* and of the referral sale recording.
C2_BalanceEqualsLedgerSum ==
  \A u \in DOMAIN users : users[u].balance = SumFor(transactions, u)

\* C5: no user's balance is negative, under any interleaving of spend,
\* withdraw, deposit, bonus and cashback calls.
C5_BalanceNeverNegative ==
  \A u \in DOMAIN users : users[u].balance >= 0

\* two debits of one user were in flight together: one committed, the other
\* lost the race
C5_Witness ==
  \E p, q \in Callers :
    /\ p # q
    /\ call[p].op \in {"spend", "withdraw"} /\ call[p].result = "Ok"
    /\ call[q].op \in {"spend", "withdraw"} /\ call[q].result = "DbErr"
    /\ call[p].user = call[q].user
    /\ call[p].snap.balance = call[q].snap.balance
    /\ call[q].snap.balance > 0
    /\ users[call[p].user].balance = 0

\* C6: spend with amount > 0 on an existing user fails with
\* InsufficientBalance exactly when amount > balance at call time, and then
\* leaves balance and log unchanged; when it succeeds, the returned and the
\* stored balance are the old balance minus amount.
C6_SpendContract ==
  [][\A p \in Callers :
       /\ ( /\ call[p].pc = "idle"
            /\ call'[p] # call[p]
            /\ call'[p].op = "spend"
            /\ call'[p].amount > 0
            /\ call'[p].user \in DOMAIN users )
          => /\ (call'[p].result = "InsufficientBalance")
                  <=> (call'[p].amount > users[call'[p].user].balance)
             /\ call'[p].result = "InsufficientBalance"
                  => (users' = users /\ transactions' = transactions)
       /\ ( /\ call[p].pc = "open"
            /\ call[p].op = "spend"
            /\ call'[p].result = "Ok" )
          => /\ call'[p].ret = users[call[p].user].balance - call[p].amount
             /\ users'[call[p].user].balance = call'[p].ret
     ]_vars

\* one spend refused for lack of funds while another went through
C6_Witness ==
  \E p, q \in Callers :
    /\ call[p].op = "spend" /\ call[p].result = "InsufficientBalance"
    /\ users[call[p].user].balance > 0
    /\ call[q].op = "spend" /\ call[q].result = "Ok"
    /\ call[q].ret = users[call[q].user].balance


----------------------------------------------------------------------------
(* Claims about purchases *)

Ended(b, outcome) == buy[b].pc = "idle" /\ buy[b].outcome = outcome

\* the referrer of the purchase, when it is a known user
Referred(b) ==
  buy[b].referred_by # {} /\ The(buy[b].referred_by) \in DOMAIN buy[b].pre

\* the discount the referrer granted, on the rows as they were at the start
Granted(b) ==
  LET row == buy[b].pre[The(buy[b].referred_by)]
  IN  IF CanWithdraw(row) THEN row.discount_percent ELSE 0

\* C7: in a purchase or extension that issued its license, made by a buyer
\* whose referrer grants discount d and has commission rate r, with no
\* service call having failed on the way, the buyer is debited
\* base*(100-d)/100, the referrer's balance grows by price*r/100 exactly
\* once, and the referrer's referral_sales grows by exactly 1.
C7_ReferralCreditedOnce ==
  \A b \in Buyers :
    (Ended(b, "ok") /\ Referred(b) /\ buy[b].ignored = {}) =>
      LET c == buy[b]
          r == The(c.referred_by)
          price == MulDiv100(PlanBase(c.plan), 100 - Granted(b))
      IN  /\ c.pre[c.user].balance - users[c.user].balance = price
          /\ users[r].balance - c.pre[r].balance
               = MulDiv100(price, c.pre[r].commission_rate)
          /\ users[r].referral_sales = c.pre[r].referral_sales + 1

\* a referred purchase that went through with every call succeeding
C7_Witness ==
  \E b \in Buyers :
    /\ Ended(b, "ok") /\ Referred(b) /\ buy[b].ignored = {}
    /\ Granted(b) = 10
    /\ buy[b].pre[The(buy[b].referred_by)].commission_rate = 20
    /\ buy[b].plan = "month"

\* C8: when the license step of a purchase or extension fails after the
\* spend succeeded, the callback goes on to a deposit for the buyer of
\* exactly the amount debited, with the note of the failed operation; when
\* that deposit commits, the row is logged and the buyer's balance is the
\* balance from before the purchase.
C8_RefundRestoresBalance ==
  [][\A b \in Buyers :
       LET c == buy[b]
           d == buy'[b]
           u == c.user
       IN  /\ (c.pc = "license" /\ d.pc # "license" /\ d.outcome # "ok") =>
                /\ d.pc = "refund"
                /\ BuyCall(b)' =
                     [op |-> "deposit", user |-> u,
                      amount |-> c.pre[u].balance - users[u].balance,
                      note |-> IF c.kind = "buy"
                                 THEN "Refund: license creation failed"
                                 ELSE "Refund: license extension failed"]
           /\ (c.pc = "refund_commit" /\ d.outcome = "refunded") =>
                /\ users'[u].balance = c.pre[u].balance
                /\ transactions' =
                     Append(transactions,
                            [user_id |-> u, amount |-> c.price,
                             tx_type |-> "Deposit",
                             description |-> RefundNote(c.kind)])]_vars

\* a discounted purchase whose license step failed and whose refund went in
C8_Witness ==
  \E b \in Buyers :
    /\ Ended(b, "refunded")
    /\ buy[b].price > 0
    /\ buy[b].price < PlanBase(buy[b].plan)
    /\ users[buy[b].user].balance = buy[b].pre[buy[b].user].balance

\* C9: a purchase never ends with the buyer debited, no license issued and
\* no refund made unless the refund was attempted at least twice and the
\* failure was escalated.
C9_RefundRetriedOrEscalated ==
  \A b \in Buyers :
    Ended(b, "refund_failed") =>
      /\ buy[b].refunds >= 2
      /\ buy[b].escalated

\* a purchase that ended debited, without license and without refund
C9_Witness ==
  \E b \in Buyers :
    /\ Ended(b, "refund_failed")
    /\ users[buy[b].user].balance
         = buy[b].pre[buy[b].user].balance - buy[b].price
    /\ buy[b].price > 0
    /\ buy[b].kind = "buy" => DOMAIN licenses = {"k1"}


----------------------------------------------------------------------------
(* Claims about licenses *)

\* C10: a link_to_user call that found the license unlinked (owner 0) and
\* whose update went through leaves the row owned by the caller, with the
\* expiry at t + (expires_at - created_at) of the row it found, t being the
\* time of the call's reading, and with its other columns as they were.
C10_LinkStartsClockAtActivation ==
  [][\A l \in Linkers :
       LET c == link[l]
           k == c.key
       IN  /\ (c.pc = "read" /\ link'[l].pc = "update"
                /\ licenses[k].tg_user_id = 0) =>
                /\ link'[l].now = now
                /\ link'[l].expires_at
                     = now + (licenses[k].expires_at - licenses[k].created_at)
           /\ (c.pc = "update" /\ link'[l].result = "Ok"
                /\ c.license.tg_user_id = 0) =>
                /\ licenses'[k] =
                     [licenses[k] EXCEPT
                        !.tg_user_id = c.user,
                        !.expires_at =
                           c.now + (c.license.expires_at - c.license.created_at)]
                /\ c.now <= now]_vars

\* a gift linked a day or more after its creation: the expiry moved
C10_Witness ==
  \E l \in Linkers :
    /\ link[l].pc = "idle" /\ link[l].result = "Ok"
    /\ link[l].license.tg_user_id = 0
    /\ link[l].now > link[l].license.created_at
    /\ licenses[link[l].key].tg_user_id = link[l].user
    /\ licenses[link[l].key].expires_at
         = link[l].now + (link[l].license.expires_at - link[l].license.created_at)


\* C11: a link_to_user call by the user who already owns the license, whose
\* update went through, leaves the license table as it was: owner, expiry,
\* blocked flag and every other column.
C11_RelinkIsNoOp ==
  [][\A l \in Linkers :
       ( /\ link[l].pc = "update"
         /\ link'[l].result = "Ok"
         /\ link[l].license.tg_user_id = link[l].user )
       => licenses' = licenses]_vars

\* a relink by the owner whose update found the row as the call had read it
C11_Witness ==
  \E l \in Linkers :
    /\ link[l].pc = "idle" /\ link[l].result = "Ok"
    /\ link[l].license.tg_user_id = link[l].user
    /\ link[l].now > link[l].license.created_at
    /\ licenses[link[l].key] = link[l].license

\* C12: a link_to_user call that finds the license owned by a real user
\* other than the caller ends with LicenseAlreadyLinked at its reading and
\* writes nothing; no call that found such an owner ends with Ok.
C12_LinkToOtherUserRefused ==
  /\ [](\A l \in Linkers :
          link[l].result = "Ok" =>
            link[l].license.tg_user_id \in {0, link[l].user})
  /\ [][\A l \in Linkers :
          ( /\ link[l].pc = "read"
            /\ link[l].key \in DOMAIN licenses
            /\ licenses[link[l].key].tg_user_id \notin {0, link[l].user} )
          => /\ link'[l] # link[l] =>
                  /\ link'[l].pc = "idle"
                  /\ link'[l].result = "LicenseAlreadyLinked"
                  /\ licenses' = licenses]_vars

\* user 2 was refused a license that user 1 owns
C12_Witness ==
  \E l \in Linkers :
    /\ link[l].result = "LicenseAlreadyLinked"
    /\ link[l].key \in DOMAIN licenses
    /\ licenses[link[l].key].tg_user_id \notin {0, link[l].user}


\* a License::validate / License::expires call has just answered
Answers(op) == resp' # resp /\ resp'.op = op

\* C13: validate(key) answers Ok with the record exactly when the key
\* exists, the license is not blocked and its expiry is not before now; a
\* blocked license gets LicenseInvalid whatever its expiry, an expired one
\* LicenseInvalid, an unknown key LicenseNotFound; the table is not written.
C13_ValidateContract ==
  [][Answers("validate") =>
       LET k == resp'.key
           known == k \in DOMAIN licenses
       IN  /\ (resp'.result = "Ok") <=>
                (known /\ ~licenses[k].is_blocked
                       /\ licenses[k].expires_at >= now)
           /\ resp'.result = "Ok" => resp'.license = licenses[k]
           /\ ~known => resp'.result = "LicenseNotFound"
           /\ (known /\ licenses[k].is_blocked) =>
                resp'.result = "LicenseInvalid"
           /\ (known /\ licenses[k].expires_at < now) =>
                resp'.result = "LicenseInvalid"
           /\ licenses' = licenses]_vars

\* a blocked license with time left was answered LicenseInvalid
C13_Witness ==
  /\ resp.op = "validate" /\ resp.result = "LicenseInvalid"
  /\ resp.key \in DOMAIN licenses
  /\ licenses[resp.key].is_blocked
  /\ licenses[resp.key].expires_at > now

\* C14: License::expires on an existing license, whatever its state, sets
\* expires_at to now + duration and is_blocked to false and leaves the other
\* columns and the other rows as they were; on an unknown key it answers
\* LicenseNotFound and changes nothing.
C14_ExtendContract ==
  [][Answers("expires") =>
       LET k == resp'.key
       IN  IF k \in DOMAIN licenses
             THEN /\ resp'.result = "Ok"
                  /\ resp'.expires_at = now + resp'.secs
                  /\ licenses' =
                       [licenses EXCEPT
                          ![k] = [tg_user_id |-> licenses[k].tg_user_id,
                                  license_type |-> licenses[k].license_type,
                                  is_blocked |-> FALSE,
                                  expires_at |-> now + resp'.secs,
                                  created_at |-> licenses[k].created_at,
                                  max_sessions |-> licenses[k].max_sessions]]
             ELSE /\ resp'.result = "LicenseNotFound"
                  /\ licenses' = licenses]_vars

\* an unlinked license that was blocked and expired has been extended
C14_Witness ==
  /\ resp.op = "expires" /\ resp.result = "Ok"
  /\ resp.license.tg_user_id = 0
  /\ resp.license.is_blocked
  /\ resp.license.expires_at < now
  /\ licenses[resp.key].expires_at = now + resp.secs
  /\ ~licenses[resp.key].is_blocked

\* C15: License::expires with a positive duration answers and stores an
\* expiry strictly later than the one the license had before the call.
C15_ExtendNeverShortens ==
  [][(Answers("expires") /\ resp'.result = "Ok" /\ resp'.secs > 0) =>
       /\ resp'.expires_at > licenses[resp'.key].expires_at
       /\ licenses'[resp'.key].expires_at > licenses[resp'.key].expires_at]_vars

\* an extension that moved the expiry to an earlier time
C15_Witness ==
  /\ resp.op = "expires" /\ resp.result = "Ok"
  /\ resp.secs > 0
  /\ resp.expires_at < resp.license.expires_at
  /\ ~resp.license.is_blocked
  /\ resp.license.expires_at > now


\* C16: withdraw with a positive amount on an existing user answers
\* WithdrawalNotAllowed when the role is neither Creator nor Admin, whatever
\* the balance, and writes nothing; for a Creator or Admin it answers
\* InsufficientBalance exactly when amount > balance, and otherwise goes on
\* to debit amount and to append one Withdrawal row of -amount.
C16_WithdrawContract ==
  [][\A p \in Callers :
       /\ ( /\ call[p].pc = "idle"
            /\ call'[p] # call[p]
            /\ call'[p].op = "withdraw"
            /\ call'[p].amount > 0
            /\ call'[p].user \in DOMAIN users )
          => LET row == users[call'[p].user]
                 a == call'[p].amount
             IN  IF row.role \in {"Creator", "Admin"}
                   THEN /\ (call'[p].result = "InsufficientBalance")
                              <=> (a > row.balance)
                        /\ a <= row.balance => call'[p].pc = "open"
                        /\ users' = users /\ transactions' = transactions
                   ELSE /\ call'[p].result = "WithdrawalNotAllowed"
                        /\ call'[p].pc = "idle"
                        /\ users' = users /\ transactions' = transactions
       /\ ( /\ call[p].pc = "open"
            /\ call[p].op = "withdraw"
            /\ call'[p].result = "Ok" )
          => LET u == call[p].user
             IN  /\ users' = [users EXCEPT
                                ![u].balance = users[u].balance - call[p].amount]
                 /\ call'[p].ret = users'[u].balance
                 /\ transactions' =
                      Append(transactions,
                             [user_id |-> u, amount |-> -call[p].amount,
                              tx_type |-> "Withdrawal",
                              description |-> "Crypto withdrawal"])
     ]_vars

\* a plain user with the funds was refused, a creator withdrew
C16_Witness ==
  \E p, q \in Callers :
    /\ call[p].op = "withdraw" /\ call[p].result = "WithdrawalNotAllowed"
    /\ users[call[p].user].balance >= call[p].amount
    /\ call[p].amount > 0
    /\ call[q].op = "withdraw" /\ call[q].result = "Ok"
    /\ users[call[q].user].role = "Creator"
    /\ users[call[q].user].balance = 0


ReferralStage == {"sale", "sale_commit", "ref_read", "bonus", "bonus_commit"}

\* C18: the callback is at its referral statements only with the buyer's
\* spend committed, and a referrer's referral_sales only changes then; a
\* step of the referral statements, failed or not, leaves the buyer's
\* balance as it is and leads to the next referral statement or to the
\* license step.
C18_ReferralAfterSpendBestEffort ==
  /\ [](\A b \in Buyers :
          buy[b].pc \in ReferralStage =>
            users[buy[b].user].balance
              = buy[b].pre[buy[b].user].balance - buy[b].price)
  /\ [][\A b \in Buyers :
          /\ (buy[b].pc \in ReferralStage /\ buy'[b] # buy[b]) =>
               /\ buy'[b].pc \in ReferralStage \cup {"license"}
               /\ users'[buy[b].user].balance = users[buy[b].user].balance
          /\ (\E u \in DOMAIN users :
                users'[u].referral_sales # users[u].referral_sales) =>
               /\ buy[b].pc = "sale_commit"
               /\ users[buy[b].user].balance
                    = buy[b].pre[buy[b].user].balance - buy[b].price]_vars

\* record_sale failed and the license was issued all the same, the buyer
\* debited the price
C18_Witness ==
  \E b \in Buyers :
    /\ Ended(b, "ok")
    /\ "record_sale" \in buy[b].ignored
    /\ buy[b].price > 0
    /\ users[buy[b].user].balance
         = buy[b].pre[buy[b].user].balance - buy[b].price


----------------------------------------------------------------------------
(* Claims about revocation and the sweep *)

SessionsOf(reg, k) ==
  IF k \in DOMAIN reg THEN {reg[k][i] : i \in 1..Len(reg[k])} ELSE {}

\* C19: /ban goes on to drop the sessions only after set_blocked went
\* through (the key exists and is now blocked), and set_blocked itself
\* leaves the registry alone; the drop removes the whole group of that key
\* in one step and changes no other group.
C19_BanDropsWholeGroupOnly ==
  [][/\ (ban.pc = "idle" /\ ban'.pc = "drop") =>
          /\ ban'.key \in DOMAIN licenses
          /\ licenses'[ban'.key].is_blocked
          /\ sessions' = sessions
     /\ (ban.pc = "drop" /\ ban'.pc = "idle") =>
          /\ ban.key \notin DOMAIN sessions'
          /\ DOMAIN sessions' = DOMAIN sessions \ {ban.key}
          /\ \A k \in DOMAIN sessions' : sessions'[k] = sessions[k]]_vars

\* a ban removed a group while another key's group stayed
C19_Witness ==
  /\ ban.pc = "idle"
  /\ ban.dropped > 0
  /\ \E k \in DOMAIN licenses :
       licenses[k].is_blocked /\ k \notin DOMAIN sessions
  /\ \E k \in DOMAIN sessions : ~licenses[k].is_blocked

LicenseBad(r) ==
  \/ hb[r].key \notin DOMAIN licenses
  \/ licenses[hb[r].key].is_blocked
  \/ licenses[hb[r].key].expires_at < hb[r].now

\* C21: a heartbeat that missed the hot path is answered UNAUTHORIZED or
\* FORBIDDEN with the registry unchanged when the license is missing,
\* blocked or expired at the lookup; a request reaches the admission only
\* from a lookup that found the license unblocked and unexpired; and a
\* device enters a group only through such an admission.
C21_RejectedUnlessLicenseValid ==
  [][/\ \A r \in Reqs :
          /\ (hb[r].pc = "query" /\ hb'[r] # hb[r] /\ LicenseBad(r)) =>
               /\ hb'[r].pc = "idle"
               /\ hb'[r].status =
                    IF hb[r].key \notin DOMAIN licenses
                      THEN "UNAUTHORIZED" ELSE "FORBIDDEN"
               /\ sessions' = sessions
          /\ (hb'[r].pc = "admit" /\ hb[r].pc # "admit") =>
               /\ hb[r].pc = "query"
               /\ ~LicenseBad(r)
     /\ \A k \in SessKeys, m \in SessDevices :
          (/\ \A s \in SessionsOf(sessions, k) : s.machine_id # m
           /\ \E s \in SessionsOf(sessions', k) : s.machine_id = m) =>
             \E r \in Reqs :
               /\ hb[r].pc = "admit"
               /\ hb[r].key = k
               /\ hb[r].machine_id = m
               /\ hb'[r].pc = "idle"
               /\ hb'[r].status = "OK"]_vars

\* a device was admitted, and a later request was refused for a license
\* that is unblocked but expired
C21_Witness ==
  /\ hb["r1"] = IdleReq("FORBIDDEN")
  /\ served = 2
  /\ ban = IdleBan(0)
  /\ \E k \in DOMAIN sessions : Len(sessions[k]) = 1
  /\ \E k \in DOMAIN licenses :
       ~licenses[k].is_blocked /\ licenses[k].expires_at < now

\* no request in flight holds a guard taken for key k
NoWorkOn(k) == \A r \in Reqs : Holding(r) => hb[r].key # k

\* C22: whatever step the requests for other keys have reached, a heartbeat
\* for a key can take its next step: a request that arrives can enter the
\* hot path, and a request that passed the license query can enter the
\* admission, whenever no request in flight is working on that same key.
C22_HeartbeatNeverWaitsOnOtherKey ==
  /\ \A r \in SessReqs, k \in SessKeys, m \in SessDevices :
       (hb[r].pc = "idle" /\ served < MaxLockHeartbeats /\ NoWorkOn(k)) =>
         ENABLED HeartbeatGetMut(r, k, m, MaxLockHeartbeats)
  /\ \A r \in SessReqs :
       (hb[r].pc = "admit" /\ NoWorkOn(hb[r].key)) =>
         ENABLED HeartbeatEntry(r)

\* a request for k1 has passed the license query and waits for the lock
\* that the admission of a request for k2 holds
C22_Witness ==
  /\ shard["k1"] = shard["k2"]
  /\ hb["r1"].pc = "admit" /\ hb["r1"].key = "k1"
  /\ hb["r2"].pc = "entry" /\ hb["r2"].key = "k2"
  /\ ~ENABLED HeartbeatEntry("r1")

C24_ResolveCodeContract ==
  [][Answers("resolve_code") =>
       LET str == CHOOSE c \in resp'.code : TRUE
           id == ParseI64(str)
           isUserId == id # {} /\ \E u \in DOMAIN users : u \in id
           owners == {u \in DOMAIN users :
                        /\ users[u].referral_code = {str}
                        /\ users[u].role \in {"Creator", "Admin"}}
       IN  /\ resp'.result \in {"Ok", "ReferralNotFound"}
           /\ isUserId => resp'.result = "Ok" /\ resp'.value \in id
           /\ (~isUserId /\ resp'.result = "Ok") => resp'.value \in owners
           /\ (~isUserId /\ id = {} /\ owners # {}) => resp'.result = "Ok"
           /\ (~isUserId /\ owners = {}) =>
                resp'.result = "ReferralNotFound"]_vars

\* a code that its owner set as a Creator, still stored after the owner
\* became a plain User, did not resolve
C24_Witness ==
  /\ resp.op = "resolve_code"
  /\ resp.code = {<<"a", "b", "1">>}
  /\ resp.result = "ReferralNotFound"
  /\ users[1].referral_code = {<<"a", "b", "1">>}
  /\ users[1].role = "User"

DecimalDigits == {"0", "1", "2", "3", "4", "5", "6", "7", "8", "9"}

OnlyDigits(str) == \A i \in 1..Len(str) : str[i] \in DecimalDigits

\* C25: set_referral_code fails with InvalidArgs and leaves the users table
\* as it was when the user is neither Creator nor Admin, and when the code
\* consists only of digits; and no stored code ever consists only of
\* digits.
C25_NumericCodeNeverStored ==
  /\ [](\A u \in DOMAIN users :
          \A str \in users[u].referral_code : ~OnlyDigits(str))
  /\ [][Answers("set_referral_code") =>
          LET u == CHOOSE x \in resp'.ref : TRUE
              plain == u \in DOMAIN users
                         /\ users[u].role \notin {"Creator", "Admin"}
              numeric == u \in DOMAIN users
                           /\ \E str \in resp'.code : OnlyDigits(str)
          IN  (plain \/ numeric) =>
                /\ resp'.result = "InvalidArgs"
                /\ users' = users]_vars

\* a Creator who holds an accepted code asked for a code of digits, was
\* refused, and still holds the earlier code
C25_Witness ==
  /\ resp.op = "set_referral_code"
  /\ resp.ref = {1}
  /\ resp.code = {<<"0", "0", "1">>}
  /\ resp.result = "InvalidArgs"
  /\ users[1].role = "Creator"
  /\ users[1].referral_code = {<<"a", "b", "1">>}

\* the call of p came to its end in this step
Returns(p) == call'[p] # call[p] /\ call'[p].pc = "idle"

\* C26: a balance mutator that returns an error, whether from its checks
\* (bad amount, user missing, role refused, insufficient balance) or from a
\* statement that failed after the transaction began (UPDATE, INSERT,
\* commit), leaves the users table and the transaction log as they were; a
\* mutator that returns Ok has changed the balance and added its row in the
\* same step.
C26_FailureLeavesNoTrace ==
  [][\A p \in Callers :
       (Returns(p) /\ call'[p].op \in Mutators) =>
         IF call'[p].result = "Ok"
           THEN /\ users'[call'[p].user].balance # users[call'[p].user].balance
                /\ Len(transactions') = Len(transactions) + 1
                /\ transactions'[Len(transactions')].user_id = call'[p].user
           ELSE /\ users' = users
                /\ transactions' = transactions]_vars

\* the one call made was a spend that passed its checks and then failed in
\* storage; the balance and the log are those of the start
C26_Witness ==
  /\ served = 1
  /\ call["c1"].op = "spend"
  /\ call["c1"].user = 1
  /\ call["c1"].amount = 20
  /\ call["c1"].result = "DbErr"
  /\ users[1].balance = 20
  /\ Len(transactions) = Len(FundedBy(1, 20) \o FundedBy(2, users[2].balance))

\* the type and the signed amount of the row a mutator logs
LoggedAs(op, amount) ==
  CASE op = "deposit" -> <<"Deposit", amount>>
    [] op = "spend" -> <<"Purchase", 0 - amount>>
    [] op = "add_referral_bonus" -> <<"ReferralBonus", amount>>
    [] op = "add_cashback" -> <<"Cashback", amount>>
    [] op = "withdraw" -> <<"Withdrawal", 0 - amount>>

\* C27: the transaction log only grows at its end: every step keeps the rows
\* it found, unchanged and in place, and a balance mutator that returns Ok
\* has added exactly one row, of its own type, for its user, with the amount
\* signed as a credit or a debit.
C27_LogAppendOnly ==
  [][/\ Len(transactions') >= Len(transactions)
     /\ SubSeq(transactions', 1, Len(transactions)) = transactions
     /\ \A p \in Callers :
          (Returns(p) /\ call'[p].op \in Mutators /\ call'[p].result = "Ok") =>
            /\ Len(transactions') = Len(transactions) + 1
            /\ LET row == transactions'[Len(transactions')]
               IN  /\ row.user_id = call'[p].user
                   /\ <<row.tx_type, row.amount>> =
                        LoggedAs(call'[p].op, call'[p].amount)]_vars

\* a withdrawal was logged as a debit behind the rows that were there
C27_Witness ==
  /\ Len(transactions) = 3
  /\ transactions[1].tx_type = "Deposit"
  /\ transactions[3].tx_type = "Withdrawal"
  /\ transactions[3].amount = -20
  /\ call["c1"].op = "withdraw" /\ call["c1"].result = "Ok"

\* C28: a balance mutator called with an amount of zero or less returns
\* InvalidArgs whether or not the user exists, opens no transaction, and
\* leaves the users table and the transaction log as they were.
C28_NonPositiveAmountRejected ==
  [][\A p \in Callers :
       (/\ call'[p] # call[p]
        /\ call[p].pc = "idle"
        /\ call'[p].op \in Mutators
        /\ call'[p].amount <= 0) =>
         /\ call'[p].pc = "idle"
         /\ call'[p].result = "InvalidArgs"
         /\ txn' = txn
         /\ users' = users
         /\ transactions' = transactions]_vars

\* a deposit of zero to a user that does not exist, and a withdrawal of a
\* negative amount by a creator, were both answered InvalidArgs
C28_Witness ==
  /\ call["c1"].op = "deposit" /\ call["c1"].user = 3
  /\ call["c1"].amount = 0 /\ call["c1"].result = "InvalidArgs"
  /\ call["c2"].op = "withdraw" /\ call["c2"].user = 2
  /\ call["c2"].amount = -1 /\ call["c2"].result = "InvalidArgs"

\* C29: the admission step first removes from the key's group every session
\* whose age, by the clock the handler read, has reached the timeout, and
\* keeps the others; the limit is tested on what is left, so a group of 5
\* sessions with a stale one among them admits the new device.
C29_StalePrunedBeforeQuota ==
  [][\A r \in Reqs :
       (hb[r].pc = "admit" /\ hb'[r] # hb[r]) =>
         LET k == hb[r].key
             before == SessionsOf(sessions, k)
             after == SessionsOf(sessions', k)
             stale == {s \in before :
                         hb[r].now - s.last_seen >= SessionTimeoutSecs}
         IN  /\ stale \cap after = {}
             /\ (before \ stale) \subseteq after
             /\ (Len(Group(k)) = SessionLimit /\ stale # {}) =>
                  /\ hb'[r].status = "OK"
                  /\ \E s \in after :
                       /\ s.machine_id = hb[r].machine_id
                       /\ s.last_seen = hb[r].now]_vars

\* the last admission removed one stale session from a group of 5 and put
\* the new device in its place
C29_Witness ==
  \E r \in Reqs, k \in DOMAIN sessions :
    /\ hb[r].pc = "idle"
    /\ hb[r].status = "OK"
    /\ hb[r].pruned = 1
    /\ Len(sessions[k]) = SessionLimit
    /\ sessions[k][SessionLimit].last_seen = now

\* the license rows differ at most in the blocked flag of key k
OnlyBlockedFlagOf(k, old, new) ==
  /\ DOMAIN new = DOMAIN old
  /\ \A x \in DOMAIN old :
       new[x] = IF x = k THEN [old[x] EXCEPT !.is_blocked = new[x].is_blocked]
                ELSE old[x]

\* C30: set_blocked, called by /ban and /unban, changes nothing but the
\* blocked flag of its license, so that the unblocked license is valid
\* exactly when the expiry it had is not yet behind the clock; and validate
\* changes no license.
C30_SetBlockedTouchesFlagOnly ==
  [][/\ \A k \in ValidityKeys :
          /\ BanSetBlocked(k) =>
               /\ OnlyBlockedFlagOf(k, licenses, licenses')
               /\ k \in DOMAIN licenses => licenses'[k].is_blocked
          /\ Unban(k) =>
               /\ OnlyBlockedFlagOf(k, licenses, licenses')
               /\ ~licenses'[k].is_blocked
               /\ (~(licenses'[k].is_blocked \/ licenses'[k].expires_at < now))
                    <=> (licenses[k].expires_at >= now)
     /\ Answers("validate") => licenses' = licenses]_vars

\* a license of user 1, issued for a week and banned, is unblocked again
\* with the owner and the expiry it was issued with; a week after that
\* expiry validate answers LicenseInvalid
C30_Witness ==
  /\ ban.pc = "drop" /\ ban.key = "k2"
  /\ "k2" \in DOMAIN licenses
  /\ ~licenses["k2"].is_blocked
  /\ licenses["k2"].tg_user_id = 1
  /\ licenses["k2"].created_at = 0
  /\ licenses["k2"].expires_at = 7 * DaySecs
  /\ now = 14 * DaySecs
  /\ resp.op = "validate" /\ resp.key = "k2"
  /\ resp.result = "LicenseInvalid"

\* C31: set_referred_by refuses a user as their own referrer (InvalidArgs)
\* and a referrer that does not exist (ReferralNotFound), changing nothing;
\* so no user is ever their own referrer and every referred_by names a user
\* of the table.
C31_ReferrerIsAnotherUser ==
  /\ [](\A u \in DOMAIN users :
          \A x \in users[u].referred_by : x # u /\ x \in DOMAIN users)
  /\ [][Answers("set_referred_by") =>
          LET u == resp'.value
              referrer == resp'.ref
          IN  /\ (u \in DOMAIN users /\ referrer = {u}) =>
                   resp'.result = "InvalidArgs" /\ users' = users
              /\ (/\ u \in DOMAIN users
                  /\ referrer # {} /\ referrer # {u}
                  /\ \A x \in referrer : x \notin DOMAIN users) =>
                   resp'.result = "ReferralNotFound" /\ users' = users]_vars

\* user 1, referred by user 2, asked to be their own referrer and was
\* refused; the referrer is still user 2
C31_Witness ==
  /\ resp.op = "set_referred_by"
  /\ resp.value = 1 /\ resp.ref = {1}
  /\ resp.result = "InvalidArgs"
  /\ users[1].referred_by = {2}

\* C32: no heartbeat is accepted for a key whose license is expired at the
\* moment of the heartbeat: whenever a step enters or refreshes a session
\* of key k, stamping it with the heartbeat's time, the license of k has an
\* expiry that is not before that time.
C32_NoHeartbeatAcceptedAfterExpiry ==
  [][\A k \in SessKeys :
       \A s \in SessionsOf(sessions', k) \ SessionsOf(sessions, k) :
         /\ k \in DOMAIN licenses
         /\ ~(licenses[k].expires_at < s.last_seen)]_vars

\* a device admitted while the license was valid has just been answered OK
\* on the hot path, after the expiry of the license
C32_Witness ==
  /\ hb["r1"] = IdleReq("OK")
  /\ served = 2
  /\ ban = IdleBan(0)
  /\ \E k \in DOMAIN sessions :
       /\ Len(sessions[k]) = 1
       /\ sessions[k][1].last_seen = now
       /\ ~licenses[k].is_blocked
       /\ licenses[k].expires_at < now

\* C33: once a ban of key k has completed (set_blocked(k, true), then the
\* drop of k's sessions) and for as long as the license stays blocked, the
\* registry holds no session for k, whatever heartbeats for k were in
\* flight during the ban.
C33_NoSessionAfterCompletedBan ==
  \A k \in DOMAIN licenses :
    (licenses[k].is_blocked /\ ~(ban.pc = "drop" /\ ban.key = k)) =>
      SessionsOf(sessions, k) = {}

\* the only ban has completed, its license is still blocked, and a
\* heartbeat that had passed the license query before the ban has been
\* admitted after the drop
C33_Witness ==
  /\ ban.pc = "idle"
  /\ \E k \in DOMAIN licenses :
       /\ licenses[k].is_blocked
       /\ Len(Group(k)) = 1
       /\ \A x \in DOMAIN licenses \ {k} : ~licenses[x].is_blocked
       /\ \E r \in SessReqs :
            /\ hb[r] = IdleReq("OK")
            /\ served = 1

\* C34: once a license has a real (non-zero) owner, no step changes its
\* owner; of two link_to_user calls by different users that both found the
\* license unlinked, at most one ends with Ok.
C34_OwnerNeverChanges ==
  /\ [][\A k \in DOMAIN licenses :
          licenses[k].tg_user_id # 0 =>
            /\ k \in DOMAIN licenses'
            /\ licenses'[k].tg_user_id = licenses[k].tg_user_id]_vars
  /\ [](\A l1, l2 \in Linkers :
          (/\ link[l1].result = "Ok" /\ link[l2].result = "Ok"
           /\ link[l1].key = link[l2].key
           /\ link[l1].license.tg_user_id = 0
           /\ link[l2].license.tg_user_id = 0) =>
            link[l1].user = link[l2].user)

\* two calls by different users both read the license unlinked and both
\* ended with Ok; the license belongs to the one that wrote last
C34_Witness ==
  \E l1, l2 \in Linkers :
    /\ link[l1].pc = "idle" /\ link[l2].pc = "idle"
    /\ link[l1].result = "Ok" /\ link[l2].result = "Ok"
    /\ link[l1].key = link[l2].key
    /\ link[l1].user # link[l2].user
    /\ link[l1].license.tg_user_id = 0
    /\ link[l2].license.tg_user_id = 0
    /\ licenses[link[l1].key].tg_user_id = link[l2].user

\* C35: a license blocked by an admin stays invalid until an admin unblocks
\* it (/unban) or extends it with the admin command: a step that takes a
\* blocked license to one that passes validate is never a step of the
\* owner's purchase callback.
C35_BlockedStaysInvalidForOwner ==
  [][\A k \in DOMAIN licenses :
       (licenses[k].is_blocked /\ ~Invalid(licenses'[k], now')) =>
         buy' = buy]_vars

\* the license was refused as invalid, the owner's paid three-month
\* extension went through, and the license is unblocked and unexpired
C35_Witness ==
  /\ resp.op = "validate" /\ resp.key = "k1"
  /\ resp.result = "LicenseInvalid"
  /\ now = 0
  /\ ban.pc = "idle"
  /\ \E b \in Buyers :
       /\ buy[b].pc = "idle" /\ buy[b].kind = "extend"
       /\ buy[b].outcome = "ok" /\ buy[b].key = "k1"
       /\ licenses["k1"].expires_at = now + PlanDays(buy[b].plan) * DaySecs
  /\ ~Invalid(licenses["k1"], now)

\* the columns of user u that a purchase can move
Money(row) ==
  <<row.balance, row.referral_sales, row.referral_earnings>>

\* C36: after a purchase or extension whose license step failed and whose
\* refund went in, the buyer's balance, the referrer's balance and the
\* referrer's referral_sales and referral_earnings are what they were
\* before the purchase started.
C36_RefundRestoresEveryone ==
  \A b \in Buyers :
    Ended(b, "refunded") =>
      \A u \in DOMAIN buy[b].pre : Money(users[u]) = Money(buy[b].pre[u])

\* a referred purchase was refunded to the buyer in full while the
\* referrer keeps a sale and its commission
C36_Witness ==
  \E b \in Buyers :
    /\ Ended(b, "refunded")
    /\ buy[b].referred_by = {2}
    /\ buy[b].ignored = {}
    /\ users[1].balance = buy[b].pre[1].balance
    /\ users[2].referral_sales = buy[b].pre[2].referral_sales + 1
    /\ users[2].balance > buy[b].pre[2].balance

\* C37: whatever discount_percent is stored for the referrer (0, 100,
\* negative, above 100), a license is created or extended by the purchase
\* flow only after a debit of the buyer went through whose amount is
\* strictly positive and not greater than the base price of the plan.
C37_LicensePrecededByPositiveDebit ==
  [][\A b \in Buyers :
       (buy[b].pc = "license" /\ licenses' # licenses) =>
         LET c == buy[b]
         IN  /\ c.price > 0
             /\ c.price <= PlanBase(c.plan)
             /\ c.new_balance = c.pre[c.user].balance - c.price
             /\ \E i \in 1..Len(transactions) :
                  /\ transactions[i].user_id = c.user
                  /\ transactions[i].tx_type = "Purchase"
                  /\ transactions[i].amount = -c.price
                  /\ transactions[i].description = SpendNote(c.kind, c.plan)]_vars

\* with a stored discount of 99 the buyer paid a hundredth of the base
\* price and got the license
C37_Witness ==
  \E b \in Buyers :
    /\ Ended(b, "ok")
    /\ users[2].discount_percent = 99
    /\ buy[b].price = PlanBase(buy[b].plan) \div 100
    /\ users[1].balance = buy[b].pre[1].balance - buy[b].price

\* with a stored discount of 100 or more the price is not positive and the
\* purchase ends at the debit, with no license
C37_WitnessRefused ==
  \E b \in Buyers :
    /\ Ended(b, "payment_failed")
    /\ buy[b].price <= 0
    /\ users[2].discount_percent >= 100
    /\ DOMAIN licenses = {"k1"}

\* C38: a paid invoice is credited at most once: whatever the interleaving
\* of check_and_process calls for the user, the log holds at most one
\* deposit row for any invoice id.
C38_InvoiceCreditedAtMostOnce ==
  \A id \in Invoices : Cardinality(DepositsFor(id)) <= 1

\* two calls that were in flight together have both ended with Ok and both
\* report invoice 1; the user's balance is twice the invoice's amount
C38_Witness ==
  /\ \A p \in Checkers :
       /\ check[p].pc = "idle"
       /\ check[p].result = "Ok"
       /\ check[p].results = <<1>>
  /\ Cardinality(DepositsFor(1)) = 2
  /\ users[1].balance = 2 * (2 * NANO_USDT)

\* the trial licenses of user u
TrialsOf(u) ==
  {k \in DOMAIN licenses :
     licenses[k].tg_user_id = u /\ licenses[k].license_type = "Trial"}

\* C39: a user obtains at most one trial license per promo, whatever the
\* interleaving of their claim_promo calls, and a claim that returned an
\* error has created no license.
C39_OneTrialPerUser ==
  /\ \A u \in UserIds : Cardinality(TrialsOf(u)) <= 1
  /\ \A p \in Claimers :
       (claim[p].pc = "idle" /\ claim[p].result \notin {"-", "Ok"}) =>
         claim[p].key = "-"

\* two claims of user 1 were in flight together: one ended with Ok, the
\* other with an error after it had created its license; user 1 has two
\* trial licenses
C39_Witness ==
  /\ claim["t1"].pc = "idle" /\ claim["t2"].pc = "idle"
  /\ claim["t1"].user = 1 /\ claim["t2"].user = 1
  /\ claim["t1"].result = "Ok"
  /\ claim["t2"].result = "DbErr"
  /\ claim["t2"].key \in DOMAIN licenses
  /\ claim["t1"].key # claim["t2"].key
  /\ TrialsOf(1) = {claim["t1"].key, claim["t2"].key}
  /\ claimed_promos = {<<1, "first_promo">>}

\* C40: every vanity code that set_referral_code accepted for a Creator or
\* Admin resolves, through resolve_code, to that user for as long as it is
\* that user's code and the user keeps the role; no stored code is read by
\* resolve_code as a raw user id.
C40_AcceptedCodeResolvesToOwner ==
  \A u \in DOMAIN users :
    \A str \in users[u].referral_code :
      CodeOwnerAllowed(users[u]) =>
        /\ ParseI64(str) = {}
        /\ ResolveCode(str) = <<"Ok", u>>

\* the code "-01", accepted for creator 1 and still theirs, was given to
\* resolve_code, which read it as the user id -1 and found no referrer
C40_Witness ==
  /\ resp.op = "resolve_code"
  /\ resp.code = {<<"-", "0", "1">>}
  /\ resp.result = "ReferralNotFound"
  /\ users[1].referral_code = {<<"-", "0", "1">>}
  /\ users[1].role = "Creator"
  /\ ParseI64(<<"-", "0", "1">>) = {-1}

====
